---------------------------- MODULE Spec2Model ----------------------------
(***************************************************************************)
(* A model of nitime/timeseries.py: the integer-tick time axis             *)
(* (TimeArray, UniformTime, Frequency), the time-series containers and the *)
(* analyzers built on the lazy derived-attribute cache.                    *)
(*                                                                         *)
(* Two specifications share the module.  Spec drives the analyzers         *)
(* (construction, reads of derived attributes, reset); SpecNew drives the  *)
(* constructors of the time axis and of the time series.                   *)
(***************************************************************************)
EXTENDS Integers, Sequences, FiniteSets, TLC

VARIABLES
    time_series, \* the time series the analyzers were built on
    an,        \* the analyzers: their captured inputs, caches and call counters
    lastOp,    \* the last operation on an analyzer and its outcome
    steps,     \* number of operations made so far
    axis,      \* a UniformTime made earlier, to build on, or None
    made       \* the last constructor call: its arguments and its outcome

vars == <<time_series, an, lastOp, steps, axis, made>>

---------------------------------------------------------------------------
(* Bounds of the analyzer model.                                           *)

MaxChan == 2
MaxSteps == 4

(* Bounds of the constructor model: the lengths, and the integers given as  *)
(* interval, rate and duration; the integers given to TimeArray.            *)

MaxLen == 3
MaxVal == 2
MaxTime == 16

---------------------------------------------------------------------------
(* Integers wider than the model checker's own.  A natural number is the   *)
(* sequence of its base-10^4 digits, least significant first, without      *)
(* leading zeros; an integer is a sign and a magnitude.  Ticks need them:  *)
(* one week is 604800 * 10^12 picoseconds, and numpy keeps ticks in 64     *)
(* bits, wrapping around beyond.                                            *)

Base == 100 * 100

\* F applied to the value of v, which is computed once
Let(v, F(_)) == CHOOSE r \in {F(x) : x \in {v}} : TRUE

RECURSIVE ToNat(_)
ToNat(n) == IF n = 0 THEN <<>> ELSE <<n % Base>> \o ToNat(n \div Base)

Limb(a, k) == IF k <= Len(a) THEN a[k] ELSE 0

RECURSIVE Trim(_)
Trim(a) ==
    IF a = <<>> \/ a[Len(a)] # 0 THEN a ELSE Trim(SubSeq(a, 1, Len(a) - 1))

RECURSIVE CmpFrom(_, _, _)
CmpFrom(a, b, k) ==
    IF k = 0 THEN 0
    ELSE IF a[k] < b[k] THEN -1
    ELSE IF a[k] > b[k] THEN 1
    ELSE CmpFrom(a, b, k - 1)

\* -1, 0 or 1 as a < b, a = b or a > b
NatCmp(a, b) ==
    IF Len(a) < Len(b) THEN -1
    ELSE IF Len(a) > Len(b) THEN 1
    ELSE CmpFrom(a, b, Len(a))

RECURSIVE AddFrom(_, _, _, _)
AddFrom(a, b, k, c) ==
    IF k > Len(a) /\ k > Len(b) THEN (IF c = 0 THEN <<>> ELSE <<c>>)
    ELSE LET t == Limb(a, k) + Limb(b, k) + c
         IN <<t % Base>> \o AddFrom(a, b, k + 1, t \div Base)

NatAdd(a, b) == AddFrom(a, b, 1, 0)

RECURSIVE SubFrom(_, _, _, _)
SubFrom(a, b, k, br) ==
    IF k > Len(a) THEN <<>>
    ELSE LET t == a[k] - Limb(b, k) - br
         IN <<IF t < 0 THEN t + Base ELSE t>>
               \o SubFrom(a, b, k + 1, IF t < 0 THEN 1 ELSE 0)

\* a - b for a >= b
NatSub(a, b) == Trim(SubFrom(a, b, 1, 0))

RECURSIVE MulFrom(_, _, _, _)
MulFrom(a, s, k, c) ==
    IF k > Len(a) THEN ToNat(c)
    ELSE LET t == a[k] * s + c
         IN <<t % Base>> \o MulFrom(a, s, k + 1, t \div Base)

\* a * s for one digit s
NatMulLimb(a, s) == IF s = 0 \/ a = <<>> THEN <<>> ELSE MulFrom(a, s, 1, 0)

RECURSIVE MulBy(_, _, _)
MulBy(a, b, k) ==
    IF k > Len(b) THEN <<>>
    ELSE Let(MulBy(a, b, k + 1), LAMBDA rest :
             NatAdd(NatMulLimb(a, b[k]),
                    IF rest = <<>> THEN <<>> ELSE <<0>> \o rest))

NatMul(a, b) == MulBy(a, b, 1)

\* the largest digit d with d * b <= r, found bit by bit from 2^13 down
RECURSIVE QDigit(_, _, _, _)
QDigit(r, b, d, bit) ==
    IF bit = 0 THEN d
    ELSE IF d + bit < Base /\ NatCmp(NatMulLimb(b, d + bit), r) <= 0
         THEN QDigit(r, b, d + bit, bit \div 2)
         ELSE QDigit(r, b, d, bit \div 2)

\* long division: the digits k .. 1 of a are still to be brought down
RECURSIVE DivFrom(_, _, _, _)
DivFrom(a, b, k, r) ==
    IF k = 0 THEN [q |-> <<>>, r |-> r]
    ELSE Let(Trim(<<a[k]>> \o r), LAMBDA r1 :
         Let(QDigit(r1, b, 0, 8192), LAMBDA d :
         Let(DivFrom(a, b, k - 1, NatSub(r1, NatMulLimb(b, d))), LAMBDA rest :
             [q |-> rest.q \o <<d>>, r |-> rest.r])))

\* short division by one digit s > 0, carrying the remainder c down
RECURSIVE ShortFrom(_, _, _, _)
ShortFrom(a, s, k, c) ==
    IF k = 0 THEN [q |-> <<>>, r |-> ToNat(c)]
    ELSE Let(c * Base + a[k], LAMBDA t :
         Let(ShortFrom(a, s, k - 1, t % s), LAMBDA rest :
             [q |-> rest.q \o <<t \div s>>, r |-> rest.r]))

\* the number of low digits of b that are zero
RECURSIVE LowZeros(_, _)
LowZeros(b, k) == IF b[k + 1] # 0 THEN k ELSE LowZeros(b, k + 1)

\* quotient and remainder of a by b > 0: the low zero digits of b are set
\* aside, then a one-digit divisor is divided by directly and a longer one
\* by long division
NatDivMod(a, b) ==
    IF NatCmp(a, b) < 0 THEN [q |-> <<>>, r |-> a]
    ELSE Let(LowZeros(b, 0), LAMBDA z :
         Let(SubSeq(a, z + 1, Len(a)), LAMBDA hi :
         Let(SubSeq(b, z + 1, Len(b)), LAMBDA b1 :
         Let(IF Len(b1) = 1 THEN ShortFrom(hi, b1[1], Len(hi), 0)
             ELSE DivFrom(hi, b1, Len(hi), <<>>), LAMBDA dm :
             [q |-> Trim(dm.q),
              r |-> IF dm.r = <<>> THEN Trim(SubSeq(a, 1, z))
                    ELSE [k \in 1 .. (z + Len(dm.r)) |->
                             IF k <= z THEN Limb(a, k) ELSE dm.r[k - z]]]))))

Signed(neg, mag) == [neg |-> neg /\ mag # <<>>, mag |-> mag]

ToInt(n) == Signed(n < 0, ToNat(IF n < 0 THEN 0 - n ELSE n))

IntNeg(x) == Signed(~x.neg, x.mag)

IntAdd(x, y) ==
    IF x.neg = y.neg THEN Signed(x.neg, NatAdd(x.mag, y.mag))
    ELSE IF NatCmp(x.mag, y.mag) >= 0 THEN Signed(x.neg, NatSub(x.mag, y.mag))
    ELSE Signed(y.neg, NatSub(y.mag, x.mag))

IntSub(x, y) == IntAdd(x, IntNeg(y))

IntMul(x, y) == Signed(x.neg # y.neg, NatMul(x.mag, y.mag))

IntCmp(x, y) ==
    IF x.neg /\ ~y.neg THEN -1
    ELSE IF ~x.neg /\ y.neg THEN 1
    ELSE IF x.neg THEN NatCmp(y.mag, x.mag)
    ELSE NatCmp(x.mag, y.mag)

IntLt(x, y) == IntCmp(x, y) < 0

IntLe(x, y) == IntCmp(x, y) <= 0

\* the quotient rounded toward zero, for y # 0
IntTrunc(x, y) == Signed(x.neg # y.neg, NatDivMod(x.mag, y.mag).q)

\* the quotient rounded up, for y # 0
IntCeil(x, y) ==
    Let(NatDivMod(x.mag, y.mag), LAMBDA dm :
        IF x.neg # y.neg \/ dm.r = <<>> THEN Signed(x.neg # y.neg, dm.q)
        ELSE Signed(FALSE, NatAdd(dm.q, <<1>>)))

\* the quotient rounded to the nearest integer, ties to the even one
\* (numpy's round), for y # 0
IntRound(x, y) ==
    Let(NatDivMod(x.mag, y.mag), LAMBDA dm :
    Let(NatCmp(NatAdd(dm.r, dm.r), y.mag), LAMBDA twice :
        Signed(x.neg # y.neg,
               IF twice > 0 \/ (twice = 0 /\ Limb(dm.q, 1) % 2 = 1)
               THEN NatAdd(dm.q, <<1>>) ELSE dm.q)))

\* 2^63 and 2^64
Two63 == <<5808, 5477, 368, 3372, 922>>

Two64 == NatAdd(Two63, Two63)

\* the value an int64 holds after an operation whose exact result is x
MutWrap64(x) == x

Wrap64(x) ==
    IF NatCmp(x.mag, Two63) < 0 THEN x
    ELSE Let(NatDivMod(x.mag, Two64).r, LAMBDA r :
         IF x.neg
         THEN (IF NatCmp(r, Two63) > 0 THEN Signed(FALSE, NatSub(Two64, r))
               ELSE Signed(TRUE, r))
         ELSE (IF NatCmp(r, Two63) >= 0 THEN Signed(TRUE, NatSub(Two64, r))
               ELSE Signed(FALSE, r)))

FitsInt64(x) == Wrap64(x) = x

---------------------------------------------------------------------------
(* Python values.  Every value is a record with a kind:                     *)
(*   None                                                                   *)
(*   int        a Python int, or a list of them (no dtype attribute)        *)
(*   int32      a numpy integer array of a width other than 64 bits         *)
(*   int64      a numpy int64 array or scalar                               *)
(*   float      a float, kept as the exact fraction n / d; the rounding     *)
(*              error of binary floating point is not modelled              *)
(*   TimeArray, Frequency, UniformTime, the series classes, and errors.     *)
(* An array is modelled by one of its elements and, where it matters, its  *)
(* shape: the constructors act element by element.                          *)

None == [kind |-> "None"]

IsNone(x) == x.kind = "None"

PyInt(n) == [kind |-> "int", v |-> ToInt(n)]

PyFloat(n, d) == [kind |-> "float", n |-> ToInt(n), d |-> ToNat(d)]

NpInt32(n) == [kind |-> "int32", v |-> ToInt(n)]

NpInt64(x) == [kind |-> "int64", v |-> x]

\* a raised exception: its class, its message and the values the message shows
Err(exc, what, reports) ==
    [kind |-> "error", exc |-> exc, what |-> what, reports |-> reports]

IsErr(x) == x.kind = "error"

\* getattr(data, 'dtype', None)
DType(x) ==
    CASE x.kind \in {"int64", "TimeArray", "UniformTime"} -> "int64"
      [] x.kind = "int32" -> "int32"
      [] OTHER -> "None"

\* a number as the fraction n / d; an array's elements are its ticks
Rat(x) ==
    IF x.kind \in {"float", "Frequency"} THEN [n |-> x.n, d |-> x.d]
    ELSE [n |-> x.v, d |-> <<1>>]

RatEq(a, b) == IntMul(a.n, Signed(FALSE, b.d)) = IntMul(b.n, Signed(FALSE, a.d))

\* float(a) / b, and 1.0 / b with a = 1
PyDiv(a, b) ==
    LET x == Rat(a)
        y == Rat(b)
    IN IF y.n.mag = <<>> THEN Err("ZeroDivisionError", "float division", {})
       ELSE [kind |-> "float",
             n |-> Signed(x.n.neg # y.n.neg, NatMul(x.n.mag, y.d)),
             d |-> NatMul(x.d, y.n.mag)]

\* length * x for a length that is a Python int or None
PyMul(length, x) ==
    IF IsNone(length) \/ IsNone(x)
    THEN Err("TypeError", "unsupported operand type(s) for *", {})
    ELSE CASE x.kind = "int" -> [x EXCEPT !.v = IntMul(length.v, x.v)]
           [] x.kind = "float" -> [x EXCEPT !.n = IntMul(length.v, x.n)]
           [] OTHER -> [x EXCEPT !.v = Wrap64(IntMul(length.v, x.v))]

---------------------------------------------------------------------------
(* Units of time                                                            *)

Ten12 == <<0, 0, 0, 1>>

\* ticks of the base unit in one unit; the key "None" is Python's None
time_unit_conversion ==
    [u \in {"ps", "ns", "us", "ms", "s", "None", "m", "h", "D", "W"} |->
        CASE u = "ps" -> ToNat(1)
          [] u = "ns" -> ToNat(1000)
          [] u = "us" -> ToNat(1000 * 1000)
          [] u = "ms" -> ToNat(1000 * 1000 * 1000)
          [] u = "s" -> Ten12
          [] u = "None" -> Ten12
          [] u = "m" -> NatMul(ToNat(60), Ten12)
          [] u = "h" -> NatMul(ToNat(3600), Ten12)
          [] u = "D" -> NatMul(ToNat(24 * 3600), Ten12)
          [] u = "W" -> NatMul(ToNat(7 * 24 * 3600), Ten12)]

base_unit == "ps"

\* the error without the list of valid units
MutInvalidUnit(time_unit) ==
    Err("ValueError", "Invalid time unit", [unit |-> time_unit, valid |-> {}])

\* ValueError('Invalid time unit %s, must be one of %s' % (time_unit, keys))
InvalidUnit(time_unit) ==
    Err("ValueError", "Invalid time unit",
        [unit |-> time_unit, valid |-> DOMAIN time_unit_conversion])

---------------------------------------------------------------------------
(* TimeArray                                                                *)

\* the integer left unscaled
MutScaleInt(v, conv_fac) == v

\* time = data_arr.astype(np.int64) * conv_fac, in 64 bits
ScaleInt(v, conv_fac) == Wrap64(IntMul(v, Signed(FALSE, conv_fac)))

\* the product truncated instead of rounded
MutScaleFloat(x, conv_fac) ==
    IntTrunc(IntMul(x.n, Signed(FALSE, conv_fac)), Signed(FALSE, x.d))

\* time = (data_arr * conv_fac).round().astype(np.int64); the float inputs
\* of the model stay within 64 bits
ScaleFloat(x, conv_fac) ==
    IntRound(IntMul(x.n, Signed(FALSE, conv_fac)), Signed(FALSE, x.d))

TimeArray_new(data, time_unit, copy) ==
    IF time_unit \notin DOMAIN time_unit_conversion THEN InvalidUnit(time_unit)
    ELSE LET conv_fac == time_unit_conversion[time_unit]
             time == IF ~copy /\ DType(data) = "int64" THEN data.v
                     ELSE IF data.kind = "TimeArray" THEN data.v
                     ELSE IF data.kind = "float" THEN ScaleFloat(data, conv_fac)
                     ELSE ScaleInt(data.v, conv_fac)
             unit == IF time_unit = "None" /\ data.kind = "TimeArray"
                     THEN data.time_unit
                     ELSE IF time_unit = "None" THEN "s" ELSE time_unit
         IN [kind |-> "TimeArray", v |-> time, time_unit |-> unit,
             conversion_factor |-> conv_fac]

---------------------------------------------------------------------------
(* Frequency: a float holding Hz, kept as the fraction n / d                *)

\* float(tuc['s']) / tuc[time_unit], for every unit
ScaleFactors ==
    [u \in DOMAIN time_unit_conversion |->
        LET conv == time_unit_conversion[u]
            dm == NatDivMod(Ten12, conv)
        IN IF dm.r = <<>> THEN [n |-> dm.q, d |-> <<1>>]
           ELSE [n |-> <<1>>, d |-> NatDivMod(conv, Ten12).q]]

scale_factor(time_unit) == ScaleFactors[time_unit]

Frequency_new(f, time_unit) ==
    LET s == scale_factor(time_unit)
        x == Rat(f)
    IN IF f.kind = "Frequency" THEN [f EXCEPT !.time_unit = time_unit]
       ELSE [kind |-> "Frequency",
             n |-> IntMul(x.n, Signed(FALSE, s.n)),
             d |-> NatMul(x.d, s.d),
             time_unit |-> time_unit]

\* the period rounded up
MutTo_period(self) ==
    NpInt64(IntCeil(IntMul(Signed(self.n.neg, self.d),
                           Signed(FALSE, scale_factor(base_unit).n)),
                    Signed(FALSE, self.n.mag)))

\* np.int64((1 / self) * scale_factor), a truncation
to_period(self) ==
    NpInt64(IntTrunc(IntMul(Signed(self.n.neg, self.d),
                            Signed(FALSE, scale_factor(base_unit).n)),
                     Signed(FALSE, self.n.mag)))

---------------------------------------------------------------------------
(* UniformTime.  __new__ is a sequence of stages over its local variables; *)
(* a stage that raises leaves the exception in err and the later stages    *)
(* do nothing.                                                              *)

Then(e, Stage(_)) == Let(e, LAMBDA x : IF IsErr(x.err) THEN x ELSE Stage(x))

\* (interval, length), (interval, duration), (rate, length), (rate, duration),
\* (length, duration), as presence of (interval, rate, length, duration)
valid_tspecs ==
    {<<TRUE, FALSE, TRUE, FALSE>>, <<TRUE, FALSE, FALSE, TRUE>>,
     <<FALSE, TRUE, TRUE, FALSE>>, <<FALSE, TRUE, FALSE, TRUE>>,
     <<FALSE, FALSE, TRUE, TRUE>>}

\* nothing, interval, rate, length, duration: valid next to a UniformTime
valid_w_data ==
    <<<<FALSE, FALSE, FALSE, FALSE>>, <<TRUE, FALSE, FALSE, FALSE>>,
      <<FALSE, TRUE, FALSE, FALSE>>, <<FALSE, FALSE, TRUE, FALSE>>,
      <<FALSE, FALSE, FALSE, TRUE>>>>

UT_tspec(e) ==
    <<~IsNone(e.sampling_interval), ~IsNone(e.sampling_rate),
      ~IsNone(e.length), ~IsNone(e.duration)>>

\* the names of the arguments that were given
Provided(tspec, l) == {l[k] : k \in {i \in DOMAIN l : tspec[i]}}

UT_names == <<"sampling_interval", "sampling_rate", "length", "duration">>

MutUT_check(e) ==
    LET tspec == UT_tspec(e)
    IN IF tspec \notin valid_tspecs \cup {<<TRUE, TRUE, FALSE, FALSE>>}
          /\ ~(e.data.kind = "UniformTime"
               /\ tspec \in {valid_w_data[k] : k \in DOMAIN valid_w_data})
       THEN [e EXCEPT !.err = Err("ValueError", "Invalid time specification",
                                  Provided(tspec, UT_names))]
       ELSE e

UT_check(e) ==
    LET tspec == UT_tspec(e)
    IN IF tspec \notin valid_tspecs
          /\ ~(e.data.kind = "UniformTime"
               /\ tspec \in {valid_w_data[k] : k \in DOMAIN valid_w_data})
       THEN [e EXCEPT !.err = Err("ValueError", "Invalid time specification",
                                  Provided(tspec, UT_names))]
       ELSE e

\* a local variable assigned from an expression that may raise
Assign(e, name, value) ==
    IF IsErr(value) THEN [e EXCEPT !.err = value] ELSE [e EXCEPT ![name] = value]

\* attributes taken over from a UniformTime given as data
UT_transfer(e) ==
    IF e.data.kind # "UniformTime" THEN e
    ELSE LET tspec == UT_tspec(e)
             data == e.data
             e1 == CASE tspec = valid_w_data[1] ->
                          [e EXCEPT !.sampling_rate = data.sampling_rate,
                                    !.duration = data.duration]
                      [] tspec = valid_w_data[2] -> e
                      [] tspec = valid_w_data[3] ->
                          Assign([e EXCEPT !.duration = data.duration],
                                 "sampling_interval",
                                 IF e.sampling_rate.kind = "Frequency"
                                 THEN to_period(e.sampling_rate)
                                 ELSE PyDiv(PyInt(1), e.sampling_rate))
                      [] tspec = valid_w_data[4] ->
                          Assign([e EXCEPT !.sampling_rate = data.sampling_rate],
                                 "duration",
                                 PyMul(e.length, data.sampling_interval))
                      [] tspec = valid_w_data[5] ->
                          [e EXCEPT !.sampling_rate = data.sampling_rate]
                      [] OTHER -> e
         IN IF e1.time_unit = "None"
            THEN [e1 EXCEPT !.time_unit = data.time_unit]
            ELSE e1

UT_unit(e) ==
    IF e.time_unit \notin DOMAIN time_unit_conversion
    THEN [e EXCEPT !.err = InvalidUnit(e.time_unit)]
    ELSE e

\* the sampling interval from the rate, or the rate from the interval
UT_rate(e) ==
    IF IsNone(e.sampling_interval)
    THEN IF e.sampling_rate.kind = "Frequency"
         THEN [e EXCEPT !.sampling_interval = to_period(e.sampling_rate)]
         ELSE IF IsNone(e.sampling_rate)
         THEN Let(Assign(e, "sampling_interval", PyDiv(e.duration, e.length)),
                  LAMBDA e1 :
                  IF IsErr(e1.err) THEN e1
                  ELSE [e1 EXCEPT !.sampling_rate =
                           Frequency_new(PyDiv(PyInt(1), e1.sampling_interval),
                                         e.time_unit)])
         ELSE Let(Frequency_new(e.sampling_rate, "s"), LAMBDA f :
                  [e EXCEPT !.sampling_rate = f, !.sampling_interval = to_period(f)])
    ELSE Let(PyDiv(PyInt(1), e.sampling_interval), LAMBDA r :
             IF IsErr(r) THEN [e EXCEPT !.err = r]
             ELSE [e EXCEPT !.sampling_rate = Frequency_new(r, "s")])

UT_duration(e) ==
    IF IsNone(e.duration)
    THEN Assign(e, "duration", PyMul(e.length, e.sampling_interval))
    ELSE e

UT_default_unit(e) ==
    IF e.time_unit = "None"
    THEN [e EXCEPT !.time_unit = IF e.duration.kind = "TimeArray"
                                 THEN e.duration.time_unit ELSE "s"]
    ELSE e

\* 'cast' the time inputs as TimeArray
UT_cast(e) ==
    [e EXCEPT !.duration = TimeArray_new(e.duration, e.time_unit, FALSE),
              !.t0 = TimeArray_new(e.t0, e.time_unit, FALSE),
              !.sampling_interval =
                  TimeArray_new(e.sampling_interval, e.time_unit, FALSE)]

\* the check left out
MutUT_too_short(e) == e

\* if duration < sampling_interval: raise ValueError
UT_too_short(e) ==
    IF IntLt(e.duration.v, e.sampling_interval.v)
    THEN [e EXCEPT !.err =
             Err("ValueError",
                 "length/duration too short for the sampling_interval/sampling_rate",
                 {})]
    ELSE e

\* the length rounded down
MutArangeLen(start, stop, step) ==
    Let(IntTrunc(IntSub(stop, start), step), LAMBDA n :
        IF n.neg THEN ToInt(0) ELSE n)

\* len(np.arange(start, stop, step)) for step # 0
ArangeLen(start, stop, step) ==
    Let(IntCeil(IntSub(stop, start), step), LAMBDA n :
        IF n.neg THEN ToInt(0) ELSE n)

\* the array itself and its attributes
UT_array(e) ==
    LET start == e.t0.v
        stop == Wrap64(IntAdd(e.t0.v, e.duration.v))
        step == e.sampling_interval.v
    IN IF step.mag = <<>>
       THEN Err("ZeroDivisionError", "arange with a zero step", {})
       ELSE [kind |-> "UniformTime",
             start |-> start, step |-> step,
             len |-> ArangeLen(start, stop, step),
             time_unit |-> e.time_unit,
             conversion_factor |-> time_unit_conversion[e.time_unit],
             duration |-> e.duration,
             sampling_rate |-> Frequency_new(e.sampling_rate, "s"),
             sampling_interval |-> e.sampling_interval,
             t0 |-> e.t0]

UniformTime_new(data, length, duration, sampling_rate, sampling_interval, t0, time_unit) ==
    LET e0 == [data |-> data, length |-> length, duration |-> duration,
               sampling_rate |-> sampling_rate,
               sampling_interval |-> sampling_interval, t0 |-> t0,
               time_unit |-> time_unit, err |-> None]
    IN Let(Then(Then(Then(Then(Then(Then(Then(UT_check(e0),
               UT_transfer), UT_unit), UT_rate), UT_duration),
               UT_default_unit), UT_cast), UT_too_short),
           LAMBDA e : IF IsErr(e.err) THEN e.err ELSE UT_array(e))

\* time[k], the k-th element of the array (0-based)
ElementAt(time, k) == Wrap64(IntAdd(time.start, IntMul(ToInt(k), time.step)))

---------------------------------------------------------------------------
(* Time series.  The data of a series is modelled by its shape, a          *)
(* non-empty sequence of dimensions.                                        *)

\* len(data): the first dimension
LenOf(shape) == shape[1]

\* data.shape[-1]: the last dimension
LastDim(shape) == shape[Len(shape)]

TimeSeriesBase_init(self, data, time_unit) ==
    IF time_unit \notin DOMAIN time_unit_conversion
    THEN [self EXCEPT !.err = InvalidUnit(time_unit)]
    ELSE [self EXCEPT !.data = data, !.time_unit = time_unit]

\* the branch for a UniformTime given as time
UTS_inherit(e) ==
    LET time == e.time
        c_fac == time.conversion_factor
        inherit == IsNone(e.sampling_interval) /\ IsNone(e.sampling_rate)
        e2 == [e EXCEPT !.t0 = IF IsNone(@) THEN time.t0 ELSE @,
                        !.sampling_interval =
                            IF inherit THEN time.sampling_interval ELSE @,
                        !.sampling_rate =
                            IF inherit THEN time.sampling_rate ELSE @]
        length == time.len
        implied == [n |-> IntMul(ToInt(LenOf(e.data)), Signed(FALSE, c_fac)),
                    d |-> time.duration.v.mag]
        e3 == IF ~IsNone(e.duration) THEN e2
              ELSE IF length # ToInt(LenOf(e.data))
                      /\ (IsNone(e2.sampling_rate)
                          \/ ~RatEq(Rat(e2.sampling_rate), implied))
              THEN [e2 EXCEPT !.err =
                       Err("ValueError", "Length of the data and specified sampling_rate do not match",
                           [length |-> LenOf(e.data),
                            sampling_rate |-> e2.sampling_rate])]
              ELSE [e2 EXCEPT !.duration = time.duration]
    IN Let(e3, LAMBDA x :
           IF ~IsErr(x.err) /\ x.time_unit = "None"
           THEN [x EXCEPT !.time_unit = time.time_unit]
           ELSE x)

\* (interval), (interval, duration), (rate), (rate, duration), (duration),
\* as presence of (interval, rate, duration): the data gives the length
UTS_valid_tspecs ==
    {<<TRUE, FALSE, FALSE>>, <<TRUE, FALSE, TRUE>>, <<FALSE, TRUE, FALSE>>,
     <<FALSE, TRUE, TRUE>>, <<FALSE, FALSE, TRUE>>}

UTS_tspec(e) ==
    <<~IsNone(e.sampling_interval), ~IsNone(e.sampling_rate), ~IsNone(e.duration)>>

UTS_check(e) ==
    IF e.time.kind = "UniformTime" THEN UTS_inherit(e)
    ELSE IF UTS_tspec(e) \notin UTS_valid_tspecs
    THEN [e EXCEPT !.err = Err("ValueError",
                               "Invalid time specification, see docstring.", {})]
    ELSE e

UTS_base(e) == TimeSeriesBase_init(e, e.data, e.time_unit)

UTS_rate(e) ==
    IF IsNone(e.sampling_interval)
    THEN IF e.sampling_rate.kind = "Frequency"
         THEN [e EXCEPT !.sampling_interval = to_period(e.sampling_rate)]
         ELSE IF IsNone(e.sampling_rate)
         THEN Let(Assign(e, "sampling_interval",
                         PyDiv(e.duration, PyInt(LastDim(e.data)))),
                  LAMBDA e1 :
                  IF IsErr(e1.err) THEN e1
                  ELSE [e1 EXCEPT !.sampling_rate =
                           Frequency_new(PyDiv(PyInt(1), e1.sampling_interval),
                                         e.time_unit)])
         ELSE Let(Frequency_new(e.sampling_rate, "s"), LAMBDA f :
                  [e EXCEPT !.sampling_rate = f, !.sampling_interval = to_period(f)])
    ELSE IF IsNone(e.sampling_rate)
    THEN Let(PyDiv(PyInt(1), e.sampling_interval), LAMBDA r :
             IF IsErr(r) THEN [e EXCEPT !.err = r]
             ELSE [e EXCEPT !.sampling_rate = Frequency_new(r, e.time_unit)])
    ELSE e

UTS_duration(e) ==
    Let(IF IsNone(e.duration)
        THEN Assign(e, "duration",
                    PyMul(PyInt(LastDim(e.data)), e.sampling_interval))
        ELSE e,
        LAMBDA e1 : IF IsNone(e1.t0) THEN [e1 EXCEPT !.t0 = PyInt(0)] ELSE e1)

UTS_attributes(e) ==
    [kind |-> "UniformTimeSeries",
     data |-> e.data,
     time_unit |-> e.time_unit,
     sampling_interval |-> TimeArray_new(e.sampling_interval, e.time_unit, FALSE),
     t0 |-> TimeArray_new(e.t0, e.time_unit, FALSE),
     sampling_rate |-> e.sampling_rate,
     duration |-> TimeArray_new(e.duration, e.time_unit, FALSE)]

UniformTimeSeries_init(data, t0, sampling_interval, sampling_rate, duration, time, time_unit) ==
    LET e0 == [data |-> data, t0 |-> t0, sampling_interval |-> sampling_interval,
               sampling_rate |-> sampling_rate, duration |-> duration,
               time |-> time, time_unit |-> time_unit, err |-> None]
    IN Let(Then(Then(Then(UTS_check(e0), UTS_base), UTS_rate), UTS_duration),
           LAMBDA e : IF IsErr(e.err) THEN e.err ELSE UTS_attributes(e))

\* the derived attribute time of a UniformTimeSeries
UniformTimeSeries_time(self) ==
    UniformTime_new(None, PyInt(LastDim(self.data)), None, None,
                    self.sampling_interval, self.t0, self.time_unit)

NonUniformTimeSeries_init(data, time, time_unit) ==
    LET e == TimeSeriesBase_init([data |-> <<>>, time_unit |-> "None", err |-> None],
                                 data, time_unit)
    IN IF IsErr(e.err) THEN e.err
       ELSE [kind |-> "NonUniformTimeSeries", data |-> e.data,
             time_unit |-> e.time_unit, time |-> time]

\* _validate_dimensionality on a series whose time has the given shape:
\* the error it raises, or None
validate_dimensionality(data, timeShape) ==
    IF Len(timeShape) # 1
    THEN Err("ValueError", "time array must be one-dimensional", {})
    ELSE IF LastDim(data) # LenOf(timeShape)
    THEN Err("ValueError", "mismatch of time and data dimensions", {})
    ELSE None

---------------------------------------------------------------------------
(* Complex numbers are pairs <<re, im>> of integers.                       *)

Conj(z) == <<z[1], 0 - z[2]>>

Channels(n) == 0 .. (n - 1)

Pairs(n) == Channels(n) \X Channels(n)

\* for i in xrange(n): for j in xrange(i, n): the pairs in loop order
RECURSIVE UpperLoop(_, _)
UpperLoop(i, n) ==
    IF i >= n THEN <<>>
    ELSE [k \in 1 .. (n - i) |-> <<i, i + k - 1>>] \o UpperLoop(i + 1, n)

\* for i in xrange(n): for j in xrange(n)
RECURSIVE FullLoop(_, _)
FullLoop(i, n) ==
    IF i >= n THEN <<>>
    ELSE [k \in 1 .. n |-> <<i, k - 1>>] \o FullLoop(i + 1, n)

SeqToSet(s) == {s[k] : k \in 1 .. Len(s)}

---------------------------------------------------------------------------
(* The spectral-estimation primitives of nitime.algorithms.  Their code is *)
(* not part of timeseries.py; they are modelled from their contract.       *)

\* The cross-spectrum of channels i and j of a data set: conjugate
\* symmetric, with a real auto-spectrum on the diagonal.
CSD(d, i, j) == <<1 + i + j + d.ver, j - i>>

\* tsa.get_spectra(data, method): the channel x channel cross-spectral tensor
GetSpectra(d, method) ==
    [f |-> [of |-> "freqs", fs |-> method["Fs"], n |-> d.nchan],
     spectrum |-> [p \in Pairs(d.nchan) |-> CSD(d, p[1], p[2])]]

\* tsa.coherency_calculate(fxy, fxx, fyy) = fxy / sqrt(fxx * fyy), kept symbolic
CoherencyCalculate(fxy, fxx, fyy) == [num |-> fxy, dx |-> fxx, dy |-> fyy]

ConjCoherency(c) == [num |-> Conj(c.num), dx |-> Conj(c.dx), dy |-> Conj(c.dy)]

ZeroCoherency == [num |-> <<0, 0>>, dx |-> <<1, 0>>, dy |-> <<1, 0>>]

\* tsa.coherence_calculate(fxy, fxx, fyy) = |fxy|^2 / (fxx * fyy), stored in a
\* real array (np.zeros without dtype): the real part is what is kept
CoherenceCalculate(fxy, fxx, fyy) ==
    [abs2 |-> fxy[1] * fxy[1] + fxy[2] * fxy[2], dx |-> fxx[1], dy |-> fyy[1]]

ZeroCoherence == [abs2 |-> 0, dx |-> 1, dy |-> 1]

\* tsa.coherency_phase_spectrum_calculate(fxy): the angle of fxy, kept symbolic
PhaseCalculate(fxy) == [angle |-> fxy]

ZeroPhase == [angle |-> <<1, 0>>]


---------------------------------------------------------------------------
(* The analyzers.  One instance of each class that the checked properties  *)
(* need: a CoherenceAnalyzer, a SparseCoherenceAnalyzer and an             *)
(* EventRelatedAnalyzer, all built on the same time series.                *)

Insts == {"coh", "sp", "era"}

ClassOf(a) ==
    CASE a = "coh" -> "CoherenceAnalyzer"
      [] a = "sp" -> "SparseCoherenceAnalyzer"
      [] a = "era" -> "EventRelatedAnalyzer"
      [] a = "spa" -> "SpectralAnalyzer"
      [] a = "cor" -> "CorrelationAnalyzer"
      [] a = "hil" -> "HilbertAnalyzer"
      [] a = "fil" -> "FilterAnalyzer"

\* The attributes each class declares with @desc.setattr_on_read
MutLazyAttrsSparse(cls) ==
    CASE cls = "CoherenceAnalyzer" ->
            {"spectrum", "frequencies", "coherence", "coherency", "phase",
             "delay", "coherence_partial"}
      [] cls = "SparseCoherenceAnalyzer" ->
            {"coherency", "spectrum", "phases", "frequencies"}
      [] cls = "EventRelatedAnalyzer" -> {"FIR", "FIR_estimate", "xcorr_eta", "eta"}
      [] cls = "SpectralAnalyzer" ->
            {"spectrum_fourier", "spectrum_mlab", "spectrum_multi_taper"}
      [] cls = "CorrelationAnalyzer" -> {"correlation", "xcorr", "xcorr_norm"}
      [] cls = "HilbertAnalyzer" -> {"_analytic", "magnitude", "phase", "real"}
      [] cls = "FilterAnalyzer" -> {"filtered_fourier"}

MutLazyAttrs(cls) ==
    CASE cls = "CoherenceAnalyzer" ->
            {"frequencies", "coherence", "coherency", "phase", "delay",
             "coherence_partial"}
      [] cls = "SparseCoherenceAnalyzer" ->
            {"cache", "coherency", "spectrum", "phases", "frequencies"}
      [] cls = "EventRelatedAnalyzer" -> {"FIR", "FIR_estimate", "xcorr_eta", "eta"}
      [] cls = "SpectralAnalyzer" ->
            {"spectrum_fourier", "spectrum_mlab", "spectrum_multi_taper"}
      [] cls = "CorrelationAnalyzer" -> {"correlation", "xcorr", "xcorr_norm"}
      [] cls = "HilbertAnalyzer" -> {"_analytic", "magnitude", "phase", "real"}
      [] cls = "FilterAnalyzer" -> {"filtered_fourier"}

LazyAttrs(cls) ==
    CASE cls = "CoherenceAnalyzer" ->
            {"spectrum", "frequencies", "coherence", "coherency", "phase",
             "delay", "coherence_partial"}
      [] cls = "SparseCoherenceAnalyzer" ->
            {"cache", "coherency", "spectrum", "phases", "frequencies"}
      [] cls = "EventRelatedAnalyzer" -> {"FIR", "FIR_estimate", "xcorr_eta", "eta"}
      [] cls = "SpectralAnalyzer" ->
            {"spectrum_fourier", "spectrum_mlab", "spectrum_multi_taper"}
      [] cls = "CorrelationAnalyzer" -> {"correlation", "xcorr", "xcorr_norm"}
      [] cls = "HilbertAnalyzer" -> {"_analytic", "magnitude", "phase", "real"}
      [] cls = "FilterAnalyzer" -> {"filtered_fourier"}

\* Every derived attribute of a class (each is a method of the class body)
Attrs(cls) ==
    CASE cls = "CoherenceAnalyzer" ->
            {"spectrum", "frequencies", "coherence", "coherency", "phase",
             "delay", "coherence_partial"}
      [] cls = "SparseCoherenceAnalyzer" ->
            {"cache", "coherency", "spectrum", "phases", "frequencies"}
      [] cls = "EventRelatedAnalyzer" -> {"FIR", "FIR_estimate", "xcorr_eta", "eta"}
      [] cls = "SpectralAnalyzer" ->
            {"spectrum_fourier", "spectrum_mlab", "spectrum_multi_taper"}
      [] cls = "CorrelationAnalyzer" -> {"correlation", "xcorr", "xcorr_norm"}
      [] cls = "HilbertAnalyzer" -> {"_analytic", "magnitude", "phase", "real"}
      [] cls = "FilterAnalyzer" -> {"filtered_fourier"}

\* time_series.sampling_rate, an opaque value here
SamplingRate == "Fs0"

\* A method descriptor is a dict; "given" is FALSE for method=None.
NoMethod == [given |-> FALSE, d |-> <<>>]

Dict(d) == [given |-> TRUE, d |-> d]

HasKey(d, k) == k \in DOMAIN d

\* dict.get(k, default)
DictGet(d, k, default) == IF HasKey(d, k) THEN d[k] ELSE default

\* d[k] = v
DictSet(d, k, v) == [x \in (DOMAIN d) \cup {k} |-> IF x = k THEN v ELSE d[x]]

NoEntry == [obj |-> 0, val |-> <<>>, est |-> <<>>]

EmptyCache(cls) == [x \in Attrs(cls) |-> NoEntry]

ZeroCount(cls) == [x \in Attrs(cls) |-> 0]

\* The result of running a getter: the analyzer state after it, whether it
\* returned, its value, the pairwise-estimator invocations it made, its error.
Returned(s, v, est) == [s |-> s, ok |-> TRUE, val |-> v, est |-> est, err |-> "none"]

Raised(s, e) == [s |-> s, ok |-> FALSE, val |-> <<>>, est |-> <<>>, err |-> e]

RECURSIVE Access(_, _, _)

---------------------------------------------------------------------------
(* CoherenceAnalyzer                                                       *)

\* __init__: self.method = {'this_method':'mlab'} or the caller's dict, then
\* self.method['Fs'] = self.method.get('Fs', self.sampling_rate)
CoherenceInit(method) ==
    LET m == IF method.given THEN method.d ELSE [this_method |-> "mlab"]
    IN DictSet(m, "Fs", DictGet(m, "Fs", SamplingRate))

Coh_spectrum(s, a) ==
    Returned(s, GetSpectra(time_series, s.method[a]).spectrum, <<>>)

Coh_frequencies(s, a) ==
    Returned(s, GetSpectra(time_series, s.method[a]).f, <<>>)

\* the double loop of coherence and coherency
MutPairLoop(n) == FullLoop(0, n)

PairLoop(n) == UpperLoop(0, n)

\* coherence[idx[0], idx[1]] = coherence[idx[1], idx[0]].conj() over
\* tril_indices(n, -1); the conjugate of a real array is the array itself
MirrorCoherence(T, n) ==
    [p \in Pairs(n) |-> IF p[1] > p[2] THEN T[<<p[2], p[1]>>] ELSE T[p]]

\* coherency[idx[0], idx[1]] = coherency[idx[1], idx[0]].conj()
MutMirrorCoherency(T, n) ==
    [p \in Pairs(n) |-> IF p[1] > p[2] THEN T[<<p[2], p[1]>>] ELSE T[p]]

MirrorCoherency(T, n) ==
    [p \in Pairs(n) |->
        IF p[1] > p[2] THEN ConjCoherency(T[<<p[2], p[1]>>]) ELSE T[p]]

Coh_coherence(s, a) ==
    LET n == time_series.nchan
        r == Access(s, a, "spectrum")
        S == r.val
        loop == PairLoop(n)
        T == [p \in Pairs(n) |->
                IF p \in SeqToSet(loop)
                THEN CoherenceCalculate(S[p], S[<<p[1], p[1]>>], S[<<p[2], p[2]>>])
                ELSE ZeroCoherence]
    IN IF ~r.ok THEN Raised(r.s, r.err)
       ELSE Returned(r.s, MirrorCoherence(T, n), loop)

Coh_coherency(s, a) ==
    LET n == time_series.nchan
        r == Access(s, a, "spectrum")
        S == r.val
        loop == PairLoop(n)
        T == [p \in Pairs(n) |->
                IF p \in SeqToSet(loop)
                THEN CoherencyCalculate(S[p], S[<<p[1], p[1]>>], S[<<p[2], p[2]>>])
                ELSE ZeroCoherency]
    IN IF ~r.ok THEN Raised(r.s, r.err)
       ELSE Returned(r.s, MirrorCoherency(T, n), loop)

\* the lower triangle left as np.zeros made it
MutCoh_phase(s, a) ==
    LET n == time_series.nchan
        r == Access(s, a, "spectrum")
        T == [p \in Pairs(n) |->
                IF p[1] <= p[2] THEN PhaseCalculate(r.val[p]) ELSE ZeroPhase]
    IN IF ~r.ok THEN Raised(r.s, r.err)
       ELSE Returned(r.s, T, UpperLoop(0, n))

\* for i <= j: phase[i][j] from spectrum[i][j], then phase[j][i] from its
\* conjugate; on the diagonal the second assignment overwrites the first
Coh_phase(s, a) ==
    LET n == time_series.nchan
        r == Access(s, a, "spectrum")
        S == r.val
        T == [p \in Pairs(n) |->
                IF p[1] < p[2] THEN PhaseCalculate(S[p])
                ELSE PhaseCalculate(Conj(S[<<p[2], p[1]>>]))]
    IN IF ~r.ok THEN Raised(r.s, r.err)
       ELSE Returned(r.s, T, UpperLoop(0, n))

\* delay[i,j] = unwrap(phase[i,j]) / (2 pi frequencies)
Coh_delay(s, a) ==
    LET r1 == Access(s, a, "phase")
        r2 == Access(r1.s, a, "frequencies")
    IN IF ~r1.ok THEN Raised(r1.s, r1.err)
       ELSE IF ~r2.ok THEN Raised(r2.s, r2.err)
       ELSE Returned(r2.s, [unwrapped |-> r1.val, over |-> r2.val], <<>>)

\* self.spectrum.shape[-1] is read, then the innermost loop names
\* t_series_length, which is not defined: NameError once it is reached
Coh_coherence_partial(s, a) ==
    LET n == time_series.nchan
        r == Access(s, a, "spectrum")
    IN IF ~r.ok THEN Raised(r.s, r.err)
       ELSE IF n >= 1 THEN Raised(r.s, "NameError")
       ELSE Returned(r.s, <<>>, <<>>)

---------------------------------------------------------------------------
(* SparseCoherenceAnalyzer                                                 *)

\* __init__: the outcome is the analyzer's method dict or the error raised
SparseInit(method) ==
    LET m == IF method.given THEN method.d ELSE [this_method |-> "mlab"]
    IN IF ~HasKey(m, "this_method") THEN Err("KeyError", "this_method", {})
       ELSE IF m["this_method"] # "mlab"
       THEN Err("ValueError",
                "For SparseCoherenceAnalyzer, spectral estimation method must be mlab",
                {})
       ELSE [kind |-> "SparseCoherenceAnalyzer",
             method |-> DictSet(m, "Fs", DictGet(m, "Fs", SamplingRate))]

\* tsa.cache_fft(self.data, self.ij, lb, ub, method, prefer_speed_over_memory,
\* scale_by_freq), kept symbolic
MutSp_cache(s, a) ==
    Returned(s, [of |-> "fft_cache", data |-> time_series, ij |-> s.ij[a],
                 lb |-> 0, ub |-> s.ub[a], method |-> s.method[a],
                 prefer_speed_over_memory |-> FALSE], <<>>)

Sp_cache(s, a) ==
    Returned(s, [of |-> "fft_cache", data |-> time_series, ij |-> s.ij[a],
                 lb |-> 0, ub |-> s.ub[a], method |-> s.method[a],
                 prefer_speed_over_memory |-> s.prefer_speed_over_memory[a]],
             <<>>)

Sp_coherency(s, a) ==
    LET r == Access(s, a, "cache")
    IN IF ~r.ok THEN Raised(r.s, r.err)
       ELSE Returned(r.s, [of |-> "cache_to_coherency", cache |-> r.obj], <<>>)

Sp_spectrum(s, a) ==
    LET r == Access(s, a, "cache")
    IN IF ~r.ok THEN Raised(r.s, r.err)
       ELSE Returned(r.s, [of |-> "cache_to_psd", cache |-> r.obj], <<>>)

Sp_phases(s, a) ==
    LET r == Access(s, a, "cache")
    IN IF ~r.ok THEN Raised(r.s, r.err)
       ELSE Returned(r.s, [of |-> "cache_to_phase", cache |-> r.obj], <<>>)

Sp_frequencies(s, a) ==
    Returned(s, [of |-> "freqs", nfft |-> DictGet(s.method[a], "NFFT", 64),
                 fs |-> DictGet(s.method[a], "Fs", "None")], <<>>)

---------------------------------------------------------------------------
(* EventRelatedAnalyzer                                                    *)

\* a getter that leaves a partial result on the instance before it raises
MutEra_FIR_estimate(s, a) ==
    Raised([s EXCEPT !.cache[a]["FIR_estimate"] =
                [obj |-> s.calls[a]["FIR_estimate"], val |-> <<>>, est |-> <<>>]],
           "NotImplementedError")

\* raise NotImplementedError
Era_FIR_estimate(s, a) == Raised(s, "NotImplementedError")

---------------------------------------------------------------------------
(* self.data of the analyzers.  SpectralAnalyzer, CoherenceAnalyzer,       *)
(* SparseCoherenceAnalyzer, CorrelationAnalyzer and FilterAnalyzer keep a  *)
(* reference to time_series.data; HilbertAnalyzer keeps the band-passed    *)
(* transform of it and EventRelatedAnalyzer the zero-padded np.hstack of   *)
(* it, both new arrays made by __init__.                                   *)

Reference == [of |-> "reference", data |-> <<>>]

MutCapture(cls, d) == Reference

\* what __init__ stores in self.data, given the series' data d
Capture(cls, d) ==
    CASE cls = "HilbertAnalyzer" -> [of |-> "real_ifft_fft", data |-> d]
      [] cls = "EventRelatedAnalyzer" -> [of |-> "hstack", data |-> d]
      [] OTHER -> Reference

\* self.data as a getter reads it
SelfData(s, a) == IF s.data[a] = Reference THEN time_series ELSE s.data[a]

---------------------------------------------------------------------------
(* SpectralAnalyzer                                                        *)

\* __init__: self.method is the caller's dict, or a new empty one
SpectralInit(method) == IF method.given THEN method.d ELSE <<>>

\* fft(self.data) up to the non-negative frequencies
Spa_spectrum_fourier(s, a) ==
    Returned(s, [of |-> "fft", data |-> SelfData(s, a)], <<>>)

\* self.mlab_method = self.method is the same dict: the two keys are written
\* into self.method
Spa_spectrum_mlab(s, a) ==
    LET m == DictSet(DictSet(s.method[a], "this_method", "mlab"),
                     "Fs", SamplingRate)
    IN Returned([s EXCEPT !.method[a] = m],
                [of |-> "get_spectra", data |-> SelfData(s, a), method |-> m],
                <<>>)

\* np.copy(self.method) is a zero-dimensional object array holding the dict;
\* assigning to its item 'this_method' raises (IndexError; ValueError on
\* older numpy) before the estimator is called
Spa_spectrum_multi_taper(s, a) == Raised(s, "IndexError")

---------------------------------------------------------------------------
(* CorrelationAnalyzer, on a series of two samples or more                 *)

Cor_correlation(s, a) ==
    Returned(s, [of |-> "corrcoef", data |-> SelfData(s, a)], <<>>)

Cor_xcorr(s, a) ==
    Returned(s, [of |-> "xcorr", data |-> SelfData(s, a)], <<>>)

Cor_xcorr_norm(s, a) ==
    LET r == Access(s, a, "correlation")
    IN IF ~r.ok THEN Raised(r.s, r.err)
       ELSE Returned(r.s, [of |-> "xcorr_norm", data |-> SelfData(r.s, a),
                           correlation |-> r.val], <<>>)

---------------------------------------------------------------------------
(* EventRelatedAnalyzer, the data flow of its estimates                    *)

Era_FIR(s, a) == Returned(s, [of |-> "fir", data |-> SelfData(s, a)], <<>>)

Era_xcorr_eta(s, a) ==
    Returned(s, [of |-> "event_related", data |-> SelfData(s, a)], <<>>)

Era_eta(s, a) == Returned(s, [of |-> "eta", data |-> SelfData(s, a)], <<>>)

---------------------------------------------------------------------------
(* HilbertAnalyzer                                                         *)

Hil__analytic(s, a) ==
    Returned(s, [of |-> "hilbert", data |-> SelfData(s, a)], <<>>)

\* magnitude, phase and real: np.abs, np.angle, np.real of self._analytic.data
Hil_part(s, a, f) ==
    LET r == Access(s, a, "_analytic")
    IN IF ~r.ok THEN Raised(r.s, r.err)
       ELSE Returned(r.s, [of |-> f, analytic |-> r.val], <<>>)

---------------------------------------------------------------------------
(* FilterAnalyzer                                                          *)

\* if self.ub is None: self.ub = self.freqs[-1]
Fil_filtered_fourier(s, a) ==
    LET ub == IF s.ub[a] = "None" THEN "freqs[-1]" ELSE s.ub[a]
    IN Returned([s EXCEPT !.ub[a] = ub],
                [of |-> "real_ifft_fft", data |-> SelfData(s, a),
                 lb |-> 0, ub |-> ub], <<>>)

---------------------------------------------------------------------------
(* The lazy derived-attribute cache of nitime.descriptors                  *)
(* (setattr_on_read, ResetMixin), modelled from its contract.              *)

Getter(s, a, x) ==
    CASE a = "coh" /\ x = "spectrum" -> Coh_spectrum(s, a)
      [] a = "coh" /\ x = "frequencies" -> Coh_frequencies(s, a)
      [] a = "coh" /\ x = "coherence" -> Coh_coherence(s, a)
      [] a = "coh" /\ x = "coherency" -> Coh_coherency(s, a)
      [] a = "coh" /\ x = "phase" -> Coh_phase(s, a)
      [] a = "coh" /\ x = "delay" -> Coh_delay(s, a)
      [] a = "coh" /\ x = "coherence_partial" -> Coh_coherence_partial(s, a)
      [] a = "sp" /\ x = "cache" -> Sp_cache(s, a)
      [] a = "sp" /\ x = "coherency" -> Sp_coherency(s, a)
      [] a = "sp" /\ x = "spectrum" -> Sp_spectrum(s, a)
      [] a = "sp" /\ x = "phases" -> Sp_phases(s, a)
      [] a = "sp" /\ x = "frequencies" -> Sp_frequencies(s, a)
      [] a = "era" /\ x = "FIR_estimate" -> Era_FIR_estimate(s, a)
      [] a = "era" /\ x = "FIR" -> Era_FIR(s, a)
      [] a = "era" /\ x = "xcorr_eta" -> Era_xcorr_eta(s, a)
      [] a = "era" /\ x = "eta" -> Era_eta(s, a)
      [] a = "spa" /\ x = "spectrum_fourier" -> Spa_spectrum_fourier(s, a)
      [] a = "spa" /\ x = "spectrum_mlab" -> Spa_spectrum_mlab(s, a)
      [] a = "spa" /\ x = "spectrum_multi_taper" -> Spa_spectrum_multi_taper(s, a)
      [] a = "cor" /\ x = "correlation" -> Cor_correlation(s, a)
      [] a = "cor" /\ x = "xcorr" -> Cor_xcorr(s, a)
      [] a = "cor" /\ x = "xcorr_norm" -> Cor_xcorr_norm(s, a)
      [] a = "hil" /\ x = "_analytic" -> Hil__analytic(s, a)
      [] a = "hil" /\ x = "magnitude" -> Hil_part(s, a, "abs")
      [] a = "hil" /\ x = "phase" -> Hil_part(s, a, "angle")
      [] a = "hil" /\ x = "real" -> Hil_part(s, a, "real")
      [] a = "fil" /\ x = "filtered_fourier" -> Fil_filtered_fourier(s, a)

\* A read of attribute x of instance a: the cached object when there is one,
\* else the getter runs and, when it returns, its value is stored on the
\* instance.  A getter that raises stores nothing.  Objects are named by the
\* invocation that made them.
Access(s, a, x) ==
    LET e == s.cache[a][x]
    IN IF e.obj # 0
       THEN [s |-> s, ok |-> TRUE, hit |-> TRUE, obj |-> e.obj, val |-> e.val,
             err |-> "none"]
       ELSE LET s1 == [s EXCEPT !.calls[a][x] = @ + 1]
                k == s1.calls[a][x]
                g == Getter(s1, a, x)
                stored == IF x \in LazyAttrs(ClassOf(a))
                          THEN [obj |-> k, val |-> g.val, est |-> g.est]
                          ELSE NoEntry
            IN IF ~g.ok
               THEN [s |-> g.s, ok |-> FALSE, hit |-> FALSE, obj |-> 0,
                     val |-> <<>>, err |-> g.err]
               ELSE [s |-> [g.s EXCEPT !.cache[a][x] = stored],
                     ok |-> TRUE, hit |-> FALSE, obj |-> k, val |-> g.val,
                     err |-> "none"]

\* ResetMixin.reset: every cached derived attribute of the instance is deleted
\* (callsAtReset remembers the counters of the call-counting stubs)
ResetCache(s, a) ==
    [s EXCEPT !.cache[a] = EmptyCache(ClassOf(a)),
              !.callsAtReset[a] = s.calls[a]]

---------------------------------------------------------------------------
(* The analyzer state machine                                              *)

DataSets == [nchan : 1 .. MaxChan, ver : {0}]

NoCall == [call |-> "none"]

NoOp == [op |-> "none", inst |-> "none", attr |-> "none", ok |-> TRUE,
         hit |-> FALSE, obj |-> 0, err |-> "none"]

InitAnalyzers ==
    [method |-> [a \in Insts |->
                    CASE a = "coh" -> CoherenceInit(NoMethod)
                      [] a = "sp" -> SparseInit(NoMethod).method
                      [] OTHER -> <<>>],
     cache |-> [a \in Insts |-> EmptyCache(ClassOf(a))],
     calls |-> [a \in Insts |-> ZeroCount(ClassOf(a))],
     callsAtReset |-> [a \in Insts |-> ZeroCount(ClassOf(a))],
     ij |-> [a \in Insts |-> <<<<0, 0>>>>],
     ub |-> [a \in Insts |-> "None"],
     prefer_speed_over_memory |-> [a \in Insts |-> FALSE]]

Init ==
    /\ time_series \in DataSets
    /\ an = InitAnalyzers
    /\ lastOp = NoOp
    /\ steps = 0
    /\ axis = None
    /\ made = NoCall

\* a read of analyzer.x
Read(a, x) ==
    /\ steps < MaxSteps
    /\ x \in Attrs(ClassOf(a))
    /\ LET r == Access(an, a, x)
       IN /\ an' = r.s
          /\ lastOp' = [NoOp EXCEPT !.op = "read", !.inst = a, !.attr = x,
                                    !.ok = r.ok, !.hit = r.hit,
                                    !.obj = r.obj, !.err = r.err]
    /\ steps' = steps + 1
    /\ UNCHANGED <<time_series, axis, made>>

\* analyzer.reset()
Reset(a) ==
    /\ steps < MaxSteps
    /\ an' = ResetCache(an, a)
    /\ lastOp' = [NoOp EXCEPT !.op = "reset", !.inst = a]
    /\ steps' = steps + 1
    /\ UNCHANGED <<time_series, axis, made>>

Next ==
    \/ Read("era", "FIR_estimate")
    \/ \E a \in Insts \ {"era"} : \E x \in Attrs(ClassOf(a)) : Read(a, x)
    \/ \E a \in Insts : Reset(a)

Spec == Init /\ [][Next]_vars

---------------------------------------------------------------------------
(* The constructors as a state machine: at most one UniformTime is made    *)
(* first, to build on; then one constructor is called; the derived         *)
(* attribute time of a UniformTimeSeries may then be read.                  *)

UnitArgs == {"None", "ps", "s", "m", "fortnight"}

AllUnitArgs == DOMAIN time_unit_conversion \cup {"fortnight"}

Ints == {PyInt(v) : v \in 1 .. MaxVal}

Lengths == {None} \cup {PyInt(n) : n \in 1 .. MaxLen}

Intervals == {None} \cup Ints \cup {PyFloat(1, 2)}

Rates == {None} \cup Ints \cup {PyFloat(1, 2)}

Durations ==
    {None} \cup Ints \cup {PyFloat(3, 2), TimeArray_new(PyInt(1), "ms", FALSE)}

\* what TimeArray is given: integers of each kind, floats, a TimeArray
TimeInputs ==
    {PyInt(v) : v \in -1 .. MaxTime}
        \cup {NpInt32(v) : v \in -1 .. MaxVal}
        \cup {NpInt64(ToInt(v)) : v \in -1 .. MaxVal}
        \cup {PyFloat(n, 2) : n \in {-1, 1, 3, 5}}
        \cup {PyFloat(1, 3), PyFloat(2, 3)}
        \cup {TimeArray_new(PyInt(v), "ms", FALSE) : v \in 1 .. MaxVal}

Shapes == {<<n>> : n \in 1 .. MaxLen} \cup {<<2, n>> : n \in 1 .. MaxLen}

TimeShapes == {<<n>> : n \in 1 .. MaxLen} \cup {<<1, MaxLen>>}

Methods ==
    {NoMethod, Dict([this_method |-> "mlab"]),
     Dict([this_method |-> "mlab", NFFT |-> 64]),
     Dict([this_method |-> "multi_taper_csd"]),
     Dict([this_method |-> "periodogram_csd"]),
     Dict([NFFT |-> 64])}

InitNew ==
    /\ time_series = [nchan |-> 1, ver |-> 0]
    /\ an = InitAnalyzers
    /\ lastOp = NoOp
    /\ steps = 0
    /\ axis = None
    /\ made = NoCall

Analyzers == <<time_series, an, lastOp, steps>>

\* no constructor has been called yet
Idle == made = NoCall

\* UniformTime(length=length, sampling_rate=1, t0=t0), kept to build on
MakeAxis(length, t0) ==
    /\ Idle /\ axis = None
    /\ axis' = UniformTime_new(None, length, None, PyInt(1), None, t0, "None")
    /\ UNCHANGED <<Analyzers, made>>

NewTimeArray(data, time_unit, copy) ==
    /\ Idle /\ axis = None
    /\ made' = [call |-> "TimeArray",
                args |-> [data |-> data, time_unit |-> time_unit, copy |-> copy],
                out |-> TimeArray_new(data, time_unit, copy)]
    /\ UNCHANGED <<Analyzers, axis>>

\* UniformTime(...), on the axis made earlier when there is one
NewUniformTime(length, duration, sampling_rate, sampling_interval, t0, time_unit) ==
    /\ Idle
    /\ made' = [call |-> "UniformTime",
                args |-> [data |-> axis, length |-> length, duration |-> duration,
                          sampling_rate |-> sampling_rate,
                          sampling_interval |-> sampling_interval,
                          t0 |-> t0, time_unit |-> time_unit],
                out |-> UniformTime_new(axis, length, duration, sampling_rate,
                                        sampling_interval, t0, time_unit)]
    /\ UNCHANGED <<Analyzers, axis>>

\* UniformTimeSeries(data, ..., time=axis)
NewUniformTimeSeries(data, t0, sampling_interval, sampling_rate, duration, time_unit) ==
    /\ Idle
    /\ made' = [call |-> "UniformTimeSeries",
                args |-> [data |-> data, t0 |-> t0,
                          sampling_interval |-> sampling_interval,
                          sampling_rate |-> sampling_rate, duration |-> duration,
                          time |-> axis, time_unit |-> time_unit],
                out |-> UniformTimeSeries_init(data, t0, sampling_interval,
                                               sampling_rate, duration, axis,
                                               time_unit),
                time |-> None]
    /\ UNCHANGED <<Analyzers, axis>>

\* the first read of series.time
ReadTime ==
    /\ made.call = "UniformTimeSeries"
    /\ ~IsErr(made.out)
    /\ IsNone(made.time)
    /\ made' = [made EXCEPT !.time = UniformTimeSeries_time(made.out)]
    /\ UNCHANGED <<Analyzers, axis>>

NewNonUniformTimeSeries(data, time, time_unit) ==
    /\ Idle /\ axis = None
    /\ made' = [call |-> "NonUniformTimeSeries",
                args |-> [data |-> data, time |-> time, time_unit |-> time_unit],
                out |-> NonUniformTimeSeries_init(data, time, time_unit)]
    /\ UNCHANGED <<Analyzers, axis>>

NewSparseCoherenceAnalyzer(method) ==
    /\ Idle /\ axis = None
    /\ made' = [call |-> "SparseCoherenceAnalyzer",
                args |-> [method |-> method],
                out |-> SparseInit(method)]
    /\ UNCHANGED <<Analyzers, axis>>

NextNew ==
    \/ /\ Idle
       /\ \E length \in {PyInt(MaxLen - 1), PyInt(MaxLen)} :
          \E t0 \in {PyInt(0), PyInt(1)} : MakeAxis(length, t0)
    \/ /\ Idle
       /\ \E data \in TimeInputs : \E time_unit \in AllUnitArgs : \E copy \in BOOLEAN :
             NewTimeArray(data, time_unit, copy)
    \/ /\ Idle
       /\ \E length \in Lengths : \E duration \in Durations :
          \E sampling_rate \in Rates : \E sampling_interval \in Intervals :
          \E t0 \in {PyInt(0), PyInt(1)} : \E time_unit \in UnitArgs :
             NewUniformTime(length, duration, sampling_rate, sampling_interval, t0, time_unit)
    \/ /\ Idle
       /\ \E data \in Shapes : \E t0 \in {None, PyInt(1)} :
          \E sampling_interval \in Intervals : \E sampling_rate \in Rates :
          \E duration \in Durations : \E time_unit \in UnitArgs :
             NewUniformTimeSeries(data, t0, sampling_interval, sampling_rate, duration, time_unit)
    \/ ReadTime
    \/ /\ Idle
       /\ \E data \in Shapes : \E time \in TimeShapes : \E time_unit \in UnitArgs :
             NewNonUniformTimeSeries(data, time, time_unit)
    \/ /\ Idle
       /\ \E method \in Methods : NewSparseCoherenceAnalyzer(method)

SpecNew == InitNew /\ [][NextNew]_vars

---------------------------------------------------------------------------
(* CorrelationAnalyzer.  The data of the series is a sequence of channels, *)
(* each a sequence of t_points integers; an element of a computed array is *)
(* an exact fraction, with denominator 0 for the inf and nan that a        *)
(* division by zero leaves in a float array.                                *)

MaxSamples == 3

RECURSIVE SumTo(_, _)
SumTo(f, n) == IF n = 0 THEN 0 ELSE f[n] + SumTo(f, n - 1)

\* tsu.xcorr(x, y): the full cross-correlation, 2N-1 points, index k for the
\* lag k - (N-1): sum over n of x[n + lag] * y[n]
xcorr(x, y) ==
    LET N == Len(x)
    IN [k \in 0 .. (2 * N - 2) |->
           SumTo([n \in 1 .. N |->
                     IF n + k - (N - 1) \in 1 .. N
                     THEN x[n + k - (N - 1)] * y[n] ELSE 0], N)]

\* np.corrcoef(data)[i, j] = cov / sqrt(vx * vy), kept as the three integers
\* (each times N^2); it is nan when a channel is constant
corrcoef(data, i, j) ==
    LET x == data[i + 1]
        y == data[j + 1]
        N == Len(x)
        sx == SumTo(x, N)
        sy == SumTo(y, N)
    IN [cov |-> N * SumTo([n \in 1 .. N |-> x[n] * y[n]], N) - sx * sy,
        vx |-> N * SumTo([n \in 1 .. N |-> x[n] * x[n]], N) - sx * sx,
        vy |-> N * SumTo([n \in 1 .. N |-> y[n] * y[n]], N) - sy * sy]

\* the index of the sample that xcorr_norm divides the cross-correlation by
NormIndex(t_points) == t_points

\* xcorr[i,j] = tsu.xcorr(data[i], data[j]); xcorr[i,j] /= xcorr[i,j,t_points];
\* xcorr[i,j] *= self.correlation[i,j]: the element k is (n / d) * r
NormalizedPair(data, i, j) ==
    LET xc == xcorr(data[i + 1], data[j + 1])
        by == xc[NormIndex(Len(data[1]))]
    IN [k \in DOMAIN xc |-> [n |-> xc[k], d |-> by, r |-> corrcoef(data, i, j)]]

\* CorrelationAnalyzer.xcorr_norm on the data: the series returned (its data
\* and its t0, in sampling intervals), or the IndexError of the division
xcorr_norm(data) ==
    LET tseries_length == Len(data)
        t_points == Len(data[1])
        upper == [p \in SeqToSet(UpperLoop(0, tseries_length)) |->
                     NormalizedPair(data, p[1], p[2])]
    IN IF NormIndex(t_points) \notin 0 .. (2 * t_points - 2)
       THEN Err("IndexError", "index out of bounds", {})
       ELSE [kind |-> "UniformTimeSeries",
             data |-> [p \in Pairs(tseries_length) |->
                          IF p[1] > p[2] THEN upper[<<p[2], p[1]>>] ELSE upper[p]],
             t0 |-> 0 - t_points]

\* the data sets of the correlation analyzer
Samples == UNION {[1 .. N -> {0, 1, 2}] : N \in 1 .. MaxSamples}

CorrData ==
    {<<x>> : x \in Samples}
        \cup {<<p[1], p[2]>> : p \in {q \in Samples \X Samples : Len(q[1]) = Len(q[2])}}

---------------------------------------------------------------------------
(* EventRelatedAnalyzer.eta.  Data and events are sequences of channels    *)
(* (a one-dimensional series is one channel, wrapped in a list); an event  *)
(* code 0 is no event.                                                      *)

\* np.hstack([zeros_before, x, zeros_after])
Pad(x, before, after) ==
    [k \in 1 .. (before + Len(x) + after) |->
        IF k > before /\ k <= before + Len(x) THEN x[k - before] ELSE 0]

Abs(n) == IF n < 0 THEN 0 - n ELSE n

\* the elements of a set of integers in increasing order
RECURSIVE Sorted(_)
Sorted(S) ==
    IF S = {} THEN <<>>
    ELSE LET m == CHOOSE x \in S : \A y \in S : x <= y
         IN <<m>> \o Sorted(S \ {m})

\* EventRelatedAnalyzer.__init__: the padded copies of data and events
EraInit(data, events, len_hrf, correct_baseline, offset) ==
    [data |-> [i \in DOMAIN data |-> Pad(data[i], Abs(offset), Abs(len_hrf))],
     events |-> [i \in DOMAIN events |-> Pad(events[i], Abs(offset), Abs(len_hrf))],
     len_h |-> Len(events),
     len_hrf |-> len_hrf,
     correct_baseline |-> correct_baseline,
     offset |-> offset]

\* u = np.unique(events); event_types = u[u != 0]
EventTypes(ev) == Sorted({ev[k] : k \in DOMAIN ev} \ {0})

\* np.where(events == e)[0]: the 0-based positions, increasing
Where(ev, e) == Sorted({k - 1 : k \in {n \in DOMAIN ev : ev[n] = e}})

\* event_trig without the correction
MutCorrectBaseline(event_trig, overlap) == event_trig

\* event_trig -= event_trig[0], in place: the subtrahend is a view of the
\* first row of the array written to.  numpy either works on a copy of the
\* row, or reads the row after it was zeroed, which leaves the other rows as
\* they were
CorrectBaseline(event_trig, overlap) ==
    [count \in DOMAIN event_trig |->
        [c \in DOMAIN event_trig[count] |->
            IF count = 0 \/ overlap = "copy"
            THEN event_trig[count][c] - event_trig[0][c]
            ELSE event_trig[count][c]]]

\* the event-triggered average of one channel for one event type: for every
\* bin the sum over the events and their number, or the IndexError of an
\* index past the end of the padded data
EtaOf(self, i, e, overlap) ==
    LET data == self.data[i]
        idx == Where(self.events[i], e)
        idx_w_len == [count \in 0 .. (self.len_hrf - 1) |->
                         [c \in DOMAIN idx |-> idx[c] + count + self.offset]]
        bad == \E count \in DOMAIN idx_w_len : \E c \in DOMAIN idx :
                  idx_w_len[count][c] >= Len(data)
        at(k) == data[(IF k < 0 THEN k + Len(data) ELSE k) + 1]
        event_trig == [count \in DOMAIN idx_w_len |->
                          [c \in DOMAIN idx |-> at(idx_w_len[count][c])]]
        corrected == IF self.correct_baseline
                     THEN CorrectBaseline(event_trig, overlap)
                     ELSE event_trig
    IN IF bad THEN [ok |-> FALSE, bins |-> <<>>]
       ELSE [ok |-> TRUE,
             bins |-> [count \in DOMAIN corrected |->
                          [sum |-> SumTo(corrected[count], Len(idx)),
                           n |-> Len(idx)]]]

\* EventRelatedAnalyzer.eta: h[i][e_idx] for every channel and event type,
\* squeezed and wrapped in a UniformTimeSeries.  A result that squeezes to
\* zero dimensions has no last axis, and the constructor of the series fails
eta(self, overlap) ==
    LET h == [i \in 1 .. self.len_h |->
                 LET event_types == EventTypes(self.events[i])
                 IN [e_idx \in DOMAIN event_types |->
                        EtaOf(self, i, event_types[e_idx], overlap)]]
        raised == \E i \in DOMAIN h : \E e \in DOMAIN h[i] : ~h[i][e].ok
        shape == {Len(h)} \cup {Len(h[i]) : i \in DOMAIN h} \cup {self.len_hrf}
    IN IF raised THEN Err("IndexError", "index out of bounds", {})
       ELSE IF shape = {1} THEN Err("IndexError", "tuple index out of range", {})
       ELSE [kind |-> "UniformTimeSeries",
             data |-> [i \in DOMAIN h |-> [e \in DOMAIN h[i] |-> h[i][e].bins]],
             t0 |-> self.offset]

\* the data and events of the event-related analyzer: one channel of up to
\* MaxSamples samples, or two channels of two samples
EtaInputs ==
    {[data |-> <<d>>, events |-> <<e>>] :
        d \in Samples, e \in Samples} \cup
    {[data |-> <<q[1], q[2]>>, events |-> <<q[3], q[4]>>] :
        q \in [1 .. 2 -> {1, 2}] \X [1 .. 2 -> {1, 2}]
              \X [1 .. 2 -> {0, 1, 2}] \X [1 .. 2 -> {0, 1, 2}]}

---------------------------------------------------------------------------
(* Indexing of the time axes.  Here a TimeArray is the sequence of its     *)
(* ticks; indices are 0-based as in the code.                              *)

\* TimeArray(data, time_unit=time_unit) of a list: element by element
TimeArray_of(data, time_unit) ==
    [kind |-> "TimeArray", shape |-> <<Len(data)>>,
     ticks |-> [k \in DOMAIN data |-> TimeArray_new(data[k], time_unit, FALSE).v],
     time_unit |-> time_unit,
     conversion_factor |-> time_unit_conversion[time_unit]]

\* np.abs of an int64
Abs64(x) == Wrap64(Signed(FALSE, x.mag))

\* d = np.abs(self - t_e)
Distances(self, t) ==
    LET t_e == TimeArray_new(t, self.time_unit, FALSE)
    IN [k \in DOMAIN self.ticks |-> Abs64(Wrap64(IntSub(self.ticks[k], t_e.v)))]

\* np.where(d <= tol) for every position
MutIndexWhere(d, tol) == [kind |-> "indices", idx |-> Sorted({k - 1 : k \in DOMAIN d})]

\* np.where(d <= tol): the positions in increasing order
IndexWhere(d, tol) ==
    [kind |-> "indices", idx |-> Sorted({k - 1 : k \in {j \in DOMAIN d : IntLe(d[j], tol)}})]

\* np.min(d) of an empty array raises; else the smallest element
Min(d) ==
    IF Len(d) = 0
    THEN Err("ValueError", "zero-size array to reduction operation minimum", {})
    ELSE NpInt64(d[CHOOSE k \in DOMAIN d : \A j \in DOMAIN d : IntLe(d[k], d[j])])

\* np.where(d == np.min(d)) for the first position only
MutIndexMin(d) == [kind |-> "indices", idx |-> <<0>>]

\* np.where(d == np.min(d))
IndexMin(d) ==
    Let(Min(d), LAMBDA m :
        IF IsErr(m) THEN m
        ELSE [kind |-> "indices",
              idx |-> Sorted({k - 1 : k \in {j \in DOMAIN d : d[j] = m.v}})])

index_at(self, t, tol) ==
    Let(Distances(self, t), LAMBDA d :
        IF IsNone(tol) THEN IndexMin(d)
        ELSE IndexWhere(d, TimeArray_new(tol, self.time_unit, FALSE).v))

\* self[idx] for an index array
Take(self, idx) ==
    [kind |-> "TimeArray", shape |-> <<Len(idx)>>,
     ticks |-> [k \in DOMAIN idx |-> self.ticks[idx[k] + 1]],
     time_unit |-> self.time_unit]

\* at(t) = self[self.index_at(t)]
at(self, t) ==
    Let(index_at(self, t, None), LAMBDA i : IF IsErr(i) THEN i ELSE Take(self, i.idx))

\* self[[key]].reshape(()) for an integer key, negative keys counting from the
\* end
ItemAt(ticks, n, key, time_unit) ==
    IF key < 0 - n \/ key >= n
    THEN Err("IndexError", "index out of bounds", {})
    ELSE [kind |-> "TimeArray", shape |-> <<>>,
          ticks |-> <<ticks[(IF key < 0 THEN key + n ELSE key) + 1]>>,
          time_unit |-> time_unit]

\* a key is an integer of the model, or a float as a fraction
TimeArray_getitem(self, key) ==
    IF key.kind = "float" THEN at(self, key)
    ELSE ItemAt(self.ticks, Len(self.ticks), key.k, self.time_unit)

\* UniformTime has neither at nor index_at
UniformTime_getitem(self, key) ==
    IF key.kind = "float"
    THEN Err("AttributeError", "'UniformTime' object has no attribute 'at'", {})
    ELSE ItemAt([k \in 1 .. MaxLen |-> ElementAt(self, k - 1)], MaxLen,
                key.k, self.time_unit)

TickLists == UNION {[1 .. n -> {PyInt(v) : v \in 0 .. MaxVal}] : n \in 0 .. MaxLen}

IndexUnits == {"ps", "s"}

IndexTimes ==
    {PyInt(v) : v \in 0 .. MaxVal + 1} \cup {PyFloat(1, 2), PyFloat(3, 2)}

Tolerances == {None, PyInt(0), PyInt(1)}

Keys == {[kind |-> "key", k |-> k] : k \in (0 - MaxLen) .. (MaxLen - 1)}
            \cup {PyFloat(0, 1), PyFloat(3, 2)}

\* the instance after __init__
Construct(a, method, d, ub) ==
    [method |-> [i \in {a} |->
                    CASE a = "coh" -> CoherenceInit(method)
                      [] a = "sp" -> SparseInit(method).method
                      [] a = "spa" -> SpectralInit(method)
                      [] OTHER -> <<>>],
     cache |-> [i \in {a} |-> EmptyCache(ClassOf(a))],
     calls |-> [i \in {a} |-> ZeroCount(ClassOf(a))],
     callsAtReset |-> [i \in {a} |-> ZeroCount(ClassOf(a))],
     data |-> [i \in {a} |-> Capture(ClassOf(a), d)],
     ij |-> [i \in {a} |-> UpperLoop(0, d.nchan)],
     ub |-> [i \in {a} |-> ub],
     prefer_speed_over_memory |-> [i \in {a} |-> FALSE]]

---------------------------------------------------------------------------
(* The functions and the attribute that are documented but not written     *)

\* raise NotImplementedError
nifti_from_time_series(volume, coords, series, nifti_path) ==
    Err("NotImplementedError", "", {})

\* a stub that does nothing and returns None
MutConcatenate_time_series(time_series_list) == None

\* raise NotImplementedError
concatenate_time_series(time_series_list) == Err("NotImplementedError", "", {})

\* the outcome of the last of n reads of attribute x of a new analyzer a
RECURSIVE ReadTimes(_, _, _, _)
ReadTimes(s, a, x, n) ==
    Let(Access(s, a, x), LAMBDA r :
        IF n > 1 THEN ReadTimes(r.s, a, x, n - 1)
        ELSE IF r.ok THEN [kind |-> "value", val |-> r.val]
        ELSE Err(r.err, "", {}))

\* series of one or two channels, sampled at 1 Hz or 2 Hz
StubSeries == [kind : {"UniformTimeSeries"}, shape : {<<2>>, <<2, 2>>}, rate : 1 .. 2]

StubLists == UNION {[1 .. n -> StubSeries] : n \in 0 .. 2}

---------------------------------------------------------------------------
(* The band limit of HilbertAnalyzer and FilterAnalyzer on an n-point       *)
(* transform.  Frequencies are counted in bins: tsu.get_freqs gives the     *)
(* n/2 + 1 non-negative ones, and lb and ub are bin numbers here.           *)

FreqBins(n) == 0 .. (n \div 2)

Bin(k) == [kind |-> "bin", k |-> k]

\* if ub is None: ub = freqs[-1]
UbOr(ub, n) == IF IsNone(ub) THEN n \div 2 ELSE ub.k

\* idx_0 = np.hstack([np.where(freqs < lb)[0], np.where(freqs > ub)[0]])
Idx0(n, lb, ub) == {k \in FreqBins(n) : k < lb.k \/ k > UbOr(ub, n)}

\* the mirror line left out
MutHilbertZeroed(n, lb, ub) == Idx0(n, lb, ub)

\* power[..., idx_0] = 0 and power[..., -1 * idx_0] = 0: index -k is n - k
HilbertZeroed(n, lb, ub) ==
    Idx0(n, lb, ub) \cup {(n - k) % n : k \in Idx0(n, lb, ub)}

\* power[..., idx_0] = 0; the line for the negative frequencies is a comment
FilterZeroed(n, lb, ub) == Idx0(n, lb, ub)

InitCalc == InitNew

\* TimeArray(data, time_unit).index_at(t, tol)
ReadIndexAt(data, time_unit, t, tol) ==
    /\ made' = [call |-> "index_at",
                args |-> [self |-> TimeArray_of(data, time_unit), t |-> t, tol |-> tol],
                out |-> index_at(TimeArray_of(data, time_unit), t, tol)]
    /\ UNCHANGED <<Analyzers, axis>>

\* TimeArray(data, time_unit)[key], for a key within the array
ReadTimeArrayItem(data, time_unit, key) ==
    /\ key.kind = "key" => key.k \in (0 - Len(data)) .. (Len(data) - 1)
    /\ made' = [call |-> "TimeArray.__getitem__",
                args |-> [self |-> TimeArray_of(data, time_unit), key |-> key],
                out |-> TimeArray_getitem(TimeArray_of(data, time_unit), key)]
    /\ UNCHANGED <<Analyzers, axis>>

\* UniformTime(length=MaxLen, sampling_rate=1, t0=t0, time_unit=time_unit)[key]
ReadUniformTimeItem(t0, time_unit, key) ==
    /\ made' = [call |-> "UniformTime.__getitem__",
                args |-> [self |-> UniformTime_new(None, PyInt(MaxLen), None, PyInt(1),
                                                   None, PyInt(t0), time_unit),
                          key |-> key],
                out |-> UniformTime_getitem(
                            UniformTime_new(None, PyInt(MaxLen), None, PyInt(1),
                                            None, PyInt(t0), time_unit), key)]
    /\ UNCHANGED <<Analyzers, axis>>

ReadXcorrNorm(data) ==
    /\ made' = [call |-> "xcorr_norm", args |-> [data |-> data],
                out |-> xcorr_norm(data)]
    /\ UNCHANGED <<Analyzers, axis>>

\* EventRelatedAnalyzer(time_series, events, len_hrf, correct_baseline=...,
\* offset=...).eta
ReadEta(in, len_hrf, correct_baseline, offset, overlap) ==
    /\ Len(in.data[1]) = Len(in.events[1])
    /\ made' = [call |-> "eta",
                args |-> [data |-> in.data, events |-> in.events,
                          len_hrf |-> len_hrf, correct_baseline |-> correct_baseline,
                          offset |-> offset, overlap |-> overlap],
                out |-> eta(EraInit(in.data, in.events, len_hrf,
                                    correct_baseline, offset), overlap)]
    /\ UNCHANGED <<Analyzers, axis>>

CallNifti(volume, coords, series, nifti_path) ==
    /\ made' = [call |-> "nifti_from_time_series",
                args |-> [volume |-> volume, coords |-> coords,
                          time_series |-> series, nifti_path |-> nifti_path],
                out |-> nifti_from_time_series(volume, coords, series, nifti_path)]
    /\ UNCHANGED <<Analyzers, axis>>

CallConcatenate(time_series_list) ==
    /\ made' = [call |-> "concatenate_time_series",
                args |-> [time_series_list |-> time_series_list],
                out |-> concatenate_time_series(time_series_list)]
    /\ UNCHANGED <<Analyzers, axis>>

\* n reads of FIR_estimate of a new EventRelatedAnalyzer
ReadFIREstimate(d, n) ==
    /\ made' = [call |-> "FIR_estimate", args |-> [data |-> d, reads |-> n],
                out |-> ReadTimes(Construct("era", NoMethod, d, "None"), "era",
                                  "FIR_estimate", n)]
    /\ UNCHANGED <<Analyzers, axis>>

\* Frequency(f).to_period()
CallToPeriod(f) ==
    /\ made' = [call |-> "to_period", args |-> [self |-> Frequency_new(f, "s")],
                out |-> to_period(Frequency_new(f, "s"))]
    /\ UNCHANGED <<Analyzers, axis>>

\* HilbertAnalyzer(series of n samples, lb, ub)
NewHilbertAnalyzer(n, lb, ub) ==
    /\ made' = [call |-> "HilbertAnalyzer", args |-> [n |-> n, lb |-> lb, ub |-> ub],
                out |-> [kind |-> "zeroed", bins |-> HilbertZeroed(n, lb, ub)]]
    /\ UNCHANGED <<Analyzers, axis>>

\* FilterAnalyzer(series of n samples, lb, ub).filtered_fourier
ReadFilteredFourier(n, lb, ub) ==
    /\ made' = [call |-> "filtered_fourier", args |-> [n |-> n, lb |-> lb, ub |-> ub],
                out |-> [kind |-> "zeroed", bins |-> FilterZeroed(n, lb, ub)]]
    /\ UNCHANGED <<Analyzers, axis>>

NextCalc ==
    \/ /\ Idle
       /\ \E data \in CorrData : ReadXcorrNorm(data)
    \/ /\ Idle
       /\ \E in \in EtaInputs : \E len_hrf \in 1 .. 2 :
          \E correct_baseline \in BOOLEAN : \E offset \in -1 .. 2 :
          \E overlap \in {"copy", "view"} :
             ReadEta(in, len_hrf, correct_baseline, offset, overlap)
    \/ /\ Idle
       /\ \E data \in TickLists : \E time_unit \in IndexUnits :
          \E t \in IndexTimes : \E tol \in Tolerances :
             ReadIndexAt(data, time_unit, t, tol)
    \/ /\ Idle
       /\ \E data \in TickLists : \E time_unit \in IndexUnits : \E key \in Keys :
             ReadTimeArrayItem(data, time_unit, key)
    \/ /\ Idle
       /\ \E t0 \in 0 .. 1 : \E time_unit \in IndexUnits : \E key \in Keys :
             ReadUniformTimeItem(t0, time_unit, key)
    \/ /\ Idle
       /\ \E volume \in {<<2, 2, 2>>, <<2, 2, 2, 3>>} : \E coords \in {<<3, 1>>, <<3, 2>>} :
          \E series \in StubSeries : \E nifti_path \in {"", "out.nii"} :
             CallNifti(volume, coords, series, nifti_path)
    \/ /\ Idle
       /\ \E time_series_list \in StubLists : CallConcatenate(time_series_list)
    \/ /\ Idle
       /\ \E d \in DataSets : \E n \in 1 .. MaxSteps : ReadFIREstimate(d, n)
    \/ /\ Idle
       /\ \E n \in 1 .. MaxVal + 1 : \E d \in 1 .. 3 : CallToPeriod(PyFloat(n, d))
    \/ /\ Idle
       /\ \E n \in 1 .. MaxLen + 1 : \E lb \in 0 .. 2 : \E ub \in 0 .. 2 :
          \E given \in BOOLEAN :
             NewHilbertAnalyzer(n, Bin(lb), IF given THEN Bin(ub) ELSE None)
    \/ /\ Idle
       /\ \E n \in 1 .. MaxLen + 1 : \E lb \in 0 .. 2 : \E ub \in 0 .. 2 :
          \E given \in BOOLEAN :
             ReadFilteredFourier(n, Bin(lb), IF given THEN Bin(ub) ELSE None)

SpecCalc == InitCalc /\ [][NextCalc]_vars

---------------------------------------------------------------------------
(* One analyzer in use: it is constructed on a time series, possibly with  *)
(* a method descriptor of the caller's; then its derived attributes are    *)
(* read, it is reset, and the caller writes into the series' data array.   *)
(* The data array is a number of channels and a version of its contents,   *)
(* which every write changes.                                              *)

MaxVer == 2

UseInsts == Insts \cup {"spa", "cor", "hil", "fil"}

\* the descriptors a constructor accepts
UseMethods(a) ==
    CASE a = "coh" -> {NoMethod, Dict([this_method |-> "mlab"]),
                       Dict([this_method |-> "mlab", Fs |-> "Fs1"])}
      [] a = "sp" -> {NoMethod, Dict([this_method |-> "mlab"])}
      [] a = "spa" -> {NoMethod, Dict([NFFT |-> 64]),
                       Dict([this_method |-> "multi_taper_csd"])}
      [] OTHER -> {NoMethod}

UseBounds(a) == IF a \in {"fil", "sp"} THEN {"None", "0.25"} ELSE {"None"}

\* prefer_speed_over_memory, a parameter of SparseCoherenceAnalyzer only
UseFlags(a) == IF a = "sp" THEN BOOLEAN ELSE {FALSE}

InitUse ==
    /\ time_series \in DataSets
    /\ \E a \in UseInsts : \E method \in UseMethods(a) : \E ub \in UseBounds(a) :
       \E flag \in UseFlags(a) :
          /\ an = [Construct(a, method, time_series, ub)
                      EXCEPT !.prefer_speed_over_memory[a] = flag]
          /\ made = [call |-> ClassOf(a), inst |-> a,
                     args |-> [data |-> time_series, method |-> method, ub |-> ub,
                               prefer_speed_over_memory |-> flag]]
    /\ lastOp = NoOp
    /\ steps = 0
    /\ axis = None

\* time_series.data[...] = ..., a write into the array in place
Mutate ==
    /\ steps < MaxSteps
    /\ time_series.ver < MaxVer
    /\ time_series' = [time_series EXCEPT !.ver = @ + 1]
    /\ lastOp' = [NoOp EXCEPT !.op = "mutate"]
    /\ steps' = steps + 1
    /\ UNCHANGED <<an, axis, made>>

NextUse ==
    \/ \E x \in Attrs(ClassOf(made.inst)) : Read(made.inst, x)
    \/ Reset(made.inst)
    \/ Mutate

SpecUse == InitUse /\ [][NextUse]_vars

---------------------------------------------------------------------------
(* Properties of the lazy cache and of the dense coherence analyzer        *)

IsRead(op, a, x) == op.op = "read" /\ op.inst = a /\ op.attr = x

CallsSinceReset(a, x) == an.calls[a][x] - an.callsAtReset[a][x]

\* C1, as stated: for every analyzer and every attribute declared with the
\* lazy-cache decorator, between two resets the underlying computation runs
\* at most once, and a read that returns leaves the object it returned cached.
C1_RunsAtMostOnce ==
    /\ \A a \in Insts : \A x \in LazyAttrs(ClassOf(a)) : CallsSinceReset(a, x) <= 1
    /\ lastOp.op = "read" /\ lastOp.ok
          => an.cache[lastOp.inst][lastOp.attr].obj = lastOp.obj

\* a read that returns leaves its object cached; one that raises caches nothing
C1_ReadCaches ==
    lastOp.op = "read" =>
        an.cache[lastOp.inst][lastOp.attr].obj = (IF lastOp.ok THEN lastOp.obj ELSE 0)

\* while an attribute is cached and its instance is not reset, a step neither
\* runs its computation again nor replaces the cached object, and a read of it
\* returns that very object
C1_CachedStays ==
    \A a \in Insts : \A x \in LazyAttrs(ClassOf(a)) :
        (an.cache[a][x].obj # 0 /\ ~(lastOp'.op = "reset" /\ lastOp'.inst = a))
            => /\ an'.cache[a][x] = an.cache[a][x]
               /\ an'.calls[a][x] = an.calls[a][x]
               /\ IsRead(lastOp', a, x)
                    => lastOp'.ok /\ lastOp'.hit /\ lastOp'.obj = an.cache[a][x].obj

\* C1, amended: between two resets the computation of a derived attribute
\* returns at most once; every read after a read that returned yields the
\* identical cached object without running the computation; a computation that
\* raises caches nothing, so that the next read runs it again.
C1_CompletesAtMostOnce == [](C1_ReadCaches) /\ [][C1_CachedStays]_vars

\* a second read of coh.spectrum was served from the cache
C1_Witness ==
    /\ IsRead(lastOp, "coh", "spectrum") /\ lastOp.hit
    /\ an.calls["coh"]["spectrum"] = 1

\* a read that ran the computation and returned is the only invocation since
\* the last reset, and it made a new object
C2_Recomputed ==
    lastOp.op = "read" /\ lastOp.ok /\ ~lastOp.hit
        => /\ CallsSinceReset(lastOp.inst, lastOp.attr) = 1
           /\ lastOp.obj = an.calls[lastOp.inst][lastOp.attr]

\* reset empties the cache of its instance, leaves every other instance's
\* cache alone and runs no computation; a read of an attribute that is not
\* cached runs its computation exactly once
C2_ResetAndMiss ==
    /\ lastOp'.op = "reset" =>
          /\ an'.cache[lastOp'.inst] = EmptyCache(ClassOf(lastOp'.inst))
          /\ \A b \in Insts \ {lastOp'.inst} : an'.cache[b] = an.cache[b]
          /\ an'.calls = an.calls
    /\ \A a \in Insts : \A x \in Attrs(ClassOf(a)) :
          IsRead(lastOp', a, x) /\ an.cache[a][x].obj = 0
             => an'.calls[a][x] = an.calls[a][x] + 1

\* C2: after one read (one invocation), a reset and one more read of the same
\* attribute recompute it, the invocation count going from 1 to 2; reset
\* clears every cached value of its instance and none of another instance.
C2_ResetRecomputes == [](C2_Recomputed) /\ [][C2_ResetAndMiss]_vars

\* read, reset, read of coh.spectrum: second invocation, while the sparse
\* analyzer still holds the object it cached
C2_Witness ==
    /\ IsRead(lastOp, "coh", "spectrum") /\ lastOp.ok /\ ~lastOp.hit
    /\ an.callsAtReset["coh"]["spectrum"] = 1
    /\ an.calls["coh"]["spectrum"] = 2
    /\ an.cache["sp"]["cache"].obj = 1
    /\ an.callsAtReset["sp"]["cache"] = 0

Triangle(n) == (n * (n + 1)) \div 2

Distinct(s) == Cardinality(SeqToSet(s)) = Len(s)

\* C3: reading coherency (coherence) of an n-channel CoherenceAnalyzer invokes
\* the pairwise estimator n(n+1)/2 times, once per pair i <= j, and the tensor
\* returned satisfies coherency[i,j] = conj(coherency[j,i]) and
\* coherence[i,j] = coherence[j,i] for all pairs, the diagonal included.
C3_UpperTriangleMirrored ==
    LET n == time_series.nchan
        cy == an.cache["coh"]["coherency"]
        ce == an.cache["coh"]["coherence"]
    IN /\ cy.obj # 0 =>
            /\ Len(cy.est) = Triangle(n) /\ Distinct(cy.est)
            /\ \A k \in 1 .. Len(cy.est) : cy.est[k][1] <= cy.est[k][2]
            /\ \A p \in Pairs(n) : cy.val[p] = ConjCoherency(cy.val[<<p[2], p[1]>>])
       /\ ce.obj # 0 =>
            /\ Len(ce.est) = Triangle(n) /\ Distinct(ce.est)
            /\ \A k \in 1 .. Len(ce.est) : ce.est[k][1] <= ce.est[k][2]
            /\ \A p \in Pairs(n) : ce.val[p] = ce.val[<<p[2], p[1]>>]

\* both tensors were computed for at least two channels
C3_Witness ==
    /\ time_series.nchan >= 2
    /\ an.cache["coh"]["coherency"].obj # 0
    /\ an.cache["coh"]["coherence"].obj # 0
    /\ an.cache["coh"]["coherency"].val[<<1, 0>>].num[2] # 0

---------------------------------------------------------------------------
(* Properties of the constructors                                           *)

Called(c) == made.call = c

UnitKeys == {"ps", "ns", "us", "ms", "s", "None", "m", "h", "D", "W"}

\* the exact product v * scale(u), in unbounded integers
Product(v, u) == IntMul(v, Signed(FALSE, time_unit_conversion[u]))

\* x is the integer nearest to n * scale(u) / d, the even one of two
Nearest(x, n, d, u) ==
    LET diff == IntSub(IntMul(x, Signed(FALSE, d)), Product(n, u))
        twice == NatCmp(NatAdd(diff.mag, diff.mag), d)
    IN twice < 0 \/ (twice = 0 /\ Limb(x.mag, 1) % 2 = 0)

InInt64(x) == IntLe(Signed(TRUE, Two63), x) /\ IntLt(x, Signed(FALSE, Two63))

\* x and y differ by a multiple of 2^64
Congruent64(x, y) == NatDivMod(IntSub(x, y).mag, Two64).r = <<>>

\* C4, as stated: with a unit u of the table, TimeArray(v, time_unit=u) stores
\* exactly v * scale(u) for an integer v of any integer type and
\* round(v * scale(u)) for a non-integer v.
C4_AlwaysScaled ==
    (Called("TimeArray") /\ ~made.args.copy /\ made.args.time_unit \in UnitKeys)
        => LET v == made.args.data
               u == made.args.time_unit
           IN /\ v.kind \in {"int", "int32", "int64"}
                    => made.out.v = Product(v.v, u)
              /\ v.kind = "float" => Nearest(made.out.v, v.n, v.d, u)

\* C4, amended: TimeArray(v, time_unit=u) keeps unchanged, as ticks, a 64-bit
\* integer array or scalar and an existing TimeArray (with copy=True only the
\* TimeArray); it stores any other integer v as v * scale(u) reduced to 64
\* bits, which is v * scale(u) itself when that fits; and it stores a
\* non-integer v as v * scale(u) rounded to the nearest tick, ties to even.
C4_ScaledUnlessTicks ==
    (Called("TimeArray") /\ made.args.time_unit \in UnitKeys)
        => LET v == made.args.data
               u == made.args.time_unit
               ticks == v.kind = "TimeArray"
                           \/ (v.kind = "int64" /\ ~made.args.copy)
           IN /\ made.out.kind = "TimeArray"
              /\ ticks => made.out.v = v.v
              /\ (~ticks /\ v.kind \in {"int", "int32", "int64"})
                    => /\ InInt64(made.out.v)
                       /\ Congruent64(made.out.v, Product(v.v, u))
                       /\ InInt64(Product(v.v, u)) => made.out.v = Product(v.v, u)
              /\ v.kind = "float" => Nearest(made.out.v, v.n, v.d, u)

\* a 64-bit integer 2 given in seconds is kept as 2 ticks
C4_Witness ==
    /\ Called("TimeArray") /\ ~made.args.copy
    /\ made.args.time_unit = "s"
    /\ made.args.data = NpInt64(ToInt(2))
    /\ made.out.v = ToInt(2)

\* the five combinations, by which of the four parameters are given
FiveCombinations(interval, rate, length, duration) ==
    \/ interval /\ ~rate /\ length /\ ~duration
    \/ interval /\ ~rate /\ ~length /\ duration
    \/ ~interval /\ rate /\ length /\ ~duration
    \/ ~interval /\ rate /\ ~length /\ duration
    \/ ~interval /\ ~rate /\ length /\ duration

Given(name) == ~IsNone(made.args[name])

\* the call gave one of the five combinations; for a series the data gives
\* the length, which completes interval alone, rate alone and duration alone
GaveValidCombination ==
    FiveCombinations(Given("sampling_interval"), Given("sampling_rate"),
                     IF Called("UniformTime") THEN Given("length")
                     ELSE ~(Given("duration")
                            /\ (Given("sampling_interval") \/ Given("sampling_rate"))),
                     Given("duration"))

GivenNames ==
    {n \in {"sampling_interval", "sampling_rate", "length", "duration"} :
        n \in DOMAIN made.args /\ Given(n)}

InvalidSpecification(out) ==
    /\ IsErr(out) /\ out.exc = "ValueError"
    /\ out.what \in {"Invalid time specification",
                     "Invalid time specification, see docstring."}

NoAxisGiven ==
    \/ Called("UniformTime") /\ IsNone(made.args.data)
    \/ Called("UniformTimeSeries") /\ IsNone(made.args.time)

\* C5, as stated: without an axis, UniformTime and UniformTimeSeries accept
\* exactly the five combinations and reject every other one with an
\* invalid-time-specification error that reports the parameters given.
C5_RejectedReporting ==
    NoAxisGiven =>
        /\ GaveValidCombination <=> ~InvalidSpecification(made.out)
        /\ ~GaveValidCombination => made.out.reports = GivenNames

\* C5, amended: without an axis, UniformTime and UniformTimeSeries accept
\* exactly the five combinations and reject every other one with an
\* invalid-time-specification error; the error of UniformTime reports the
\* parameters given, the error of UniformTimeSeries reports none.
C5_RejectedExactly ==
    NoAxisGiven =>
        /\ GaveValidCombination <=> ~InvalidSpecification(made.out)
        /\ ~GaveValidCombination =>
              made.out.reports = IF Called("UniformTime") THEN GivenNames ELSE {}

\* a series given interval, rate and duration is rejected, reporting nothing
C5_Witness ==
    /\ Called("UniformTimeSeries") /\ IsNone(made.args.time)
    /\ Given("sampling_interval") /\ Given("sampling_rate") /\ Given("duration")
    /\ InvalidSpecification(made.out)
    /\ made.out.reports = {}

Constructed(c) == Called(c) /\ ~IsErr(made.out)

\* len(A) * A.sampling_interval - A.duration, in ticks
Excess(A) == IntSub(IntMul(A.len, A.sampling_interval.v), A.duration.v)

C7_ConflictingRateFails ==
    (/\ Called("UniformTimeSeries")
     /\ made.args.time.kind = "UniformTime"
     /\ Given("sampling_rate")
     /\ ~RatEq(Rat(Frequency_new(made.args.sampling_rate, "s")),
               Rat(made.args.time.sampling_rate)))
        => IsErr(made.out)

\* the shape of the time of a series that was constructed
TimeShapeOf(series) ==
    IF series.kind = "NonUniformTimeSeries" THEN series.time
    ELSE <<IF made.time.len.mag = <<>> THEN 0 ELSE made.time.len.mag[1]>>

\* C8: every time series that was constructed has a one-dimensional time
\* whose length is the last dimension of its data.
C8_DimensionsAgree ==
    (\/ Constructed("NonUniformTimeSeries")
     \/ Constructed("UniformTimeSeries") /\ made.time.kind = "UniformTime")
        => IsNone(validate_dimensionality(made.out.data, TimeShapeOf(made.out)))

NamesMlab(method) ==
    ~method.given \/ (HasKey(method.d, "this_method") /\ method.d["this_method"] = "mlab")

\* C9: constructing a SparseCoherenceAnalyzer succeeds when the method is
\* omitted or names mlab, and fails with the unsupported-method ValueError
\* for every other method descriptor.
C9_TwoOutcomes ==
    Called("SparseCoherenceAnalyzer") =>
        IF NamesMlab(made.args.method)
        THEN made.out.kind = "SparseCoherenceAnalyzer"
        ELSE IsErr(made.out) /\ made.out.exc = "ValueError"

BadUnit ==
    /\ ~Called("none")
    /\ "time_unit" \in DOMAIN made.args
    /\ made.args.time_unit \notin UnitKeys

ReportsUnit(out) ==
    /\ IsErr(out) /\ out.exc = "ValueError" /\ out.what = "Invalid time unit"
    /\ out.reports = [unit |-> made.args.time_unit, valid |-> UnitKeys]

RaisedBeforeUnit(out) ==
    /\ Called("UniformTime") \/ Called("UniformTimeSeries")
    /\ IsErr(out) /\ out.exc = "ValueError"
    /\ \/ InvalidSpecification(out) /\ ~(NoAxisGiven /\ GaveValidCombination)
       \/ /\ Called("UniformTimeSeries") /\ ~NoAxisGiven
          /\ out.what = "Length of the data and specified sampling_rate do not match"

---------------------------------------------------------------------------
(* Properties of the correlation and event-related analyzers               *)

\* the value (n / d) * r is the Pearson coefficient r itself
IsPearson(e) ==
    /\ e.d # 0 /\ e.r.vx # 0 /\ e.r.vy # 0
    /\ e.n = e.d \/ e.r.cov = 0

\* C11: for every channel pair of a CorrelationAnalyzer over N samples, the
\* value of xcorr_norm at zero lag, the centre (index N-1) of the 2N-1 point
\* cross-correlation and the sample at time 0 of the series returned, is the
\* Pearson coefficient correlation[i,j] (for channels that are not constant).
C11_ZeroLagIsPearson ==
    Called("xcorr_norm") =>
        LET data == made.args.data
            N == Len(data[1])
        IN /\ ~IsErr(made.out)
           /\ made.out.t0 + (N - 1) = 0
           /\ \A p \in Pairs(Len(data)) :
                 LET r == corrcoef(data, p[1], p[2])
                 IN (r.vx # 0 /\ r.vy # 0) => IsPearson(made.out.data[p][N - 1])

\* C12: with correct_baseline=True, the event-triggered average eta has a
\* first time-bin that is exactly zero, for every channel and every non-zero
\* event code.
C12_FirstBinZero ==
    (Constructed("eta") /\ made.args.correct_baseline) =>
        \A i \in DOMAIN made.out.data : \A e \in DOMAIN made.out.data[i] :
            made.out.data[i][e][0].sum = 0

\* two channels, the first with two kinds of event on samples that are not
\* zero, read when numpy subtracts the first row through a view
C12_Witness ==
    /\ Constructed("eta") /\ made.args.correct_baseline
    /\ made.args.overlap = "view"
    /\ Len(made.args.data) = 2
    /\ made.args.data[1] = <<1, 2>> /\ made.args.events[1] = <<2, 1>>
    /\ made.args.len_hrf = 2
    /\ made.out.data[1][1][1].sum # 0

---------------------------------------------------------------------------
(* Properties of failed computations and of the analyzers' inputs          *)

\* a read that raised returned no object and left nothing cached for its
\* attribute
C13_NothingCached ==
    (lastOp.op = "read" /\ ~lastOp.ok) =>
        /\ lastOp.obj = 0 /\ ~lastOp.hit
        /\ an.cache[lastOp.inst][lastOp.attr] = NoEntry

\* a read of an attribute that was attempted before and is not cached, as
\* after a computation that raised, runs the computation once more
C13_Retried ==
    \A a \in Insts : \A x \in Attrs(ClassOf(a)) :
        (an.calls[a][x] >= 1 /\ an.cache[a][x] = NoEntry /\ IsRead(lastOp', a, x))
            => an'.calls[a][x] = an.calls[a][x] + 1

\* C13: if the computation of a derived attribute raises, no value is cached
\* for the attribute, no partial result is returned, and the next read of the
\* attribute invokes the computation again.
C13_FailureIsNotCached == [](C13_NothingCached) /\ [][C13_Retried]_vars

\* FIR_estimate raised for the second time, coherence_partial having raised too
C13_Witness ==
    /\ IsRead(lastOp, "era", "FIR_estimate") /\ ~lastOp.ok
    /\ lastOp.err = "NotImplementedError"
    /\ an.calls["era"]["FIR_estimate"] = 2
    /\ an.calls["coh"]["coherence_partial"] = 1
    /\ an.cache["coh"]["coherence_partial"] = NoEntry

\* C16: reading coherence_partial of an n-channel CoherenceAnalyzer, n >= 1,
\* completes and returns a tensor with an entry for every (i, j, k) of the
\* n x n x n cube.
C16_PartialCompletes ==
    IsRead(lastOp, "coh", "coherence_partial") =>
        /\ lastOp.ok
        /\ DOMAIN an.cache["coh"]["coherence_partial"].val
              = Channels(time_series.nchan) \X Channels(time_series.nchan)
                    \X Channels(time_series.nchan)

\* the attributes whose getter reads self.data itself
DirectAttrs(cls) ==
    CASE cls = "CoherenceAnalyzer" -> {"spectrum"}
      [] cls = "SparseCoherenceAnalyzer" -> {"cache"}
      [] cls = "SpectralAnalyzer" -> {"spectrum_fourier", "spectrum_mlab"}
      [] cls = "CorrelationAnalyzer" -> {"correlation", "xcorr"}
      [] cls = "EventRelatedAnalyzer" -> {"FIR", "xcorr_eta", "eta"}
      [] cls = "HilbertAnalyzer" -> {"_analytic"}
      [] cls = "FilterAnalyzer" -> {"filtered_fourier"}

\* the derived value v of instance a was computed from the data d, possibly
\* through the transform or the padding of d that the constructor makes
ComputedFrom(v, a, d) ==
    IF a = "coh" THEN v = [p \in Pairs(d.nchan) |-> CSD(d, p[1], p[2])]
    ELSE \/ v.data = d
         \/ v.data \in {[of |-> f, data |-> d] : f \in {"real_ifft_fft", "hstack"}}

\* the last step read an attribute that reads self.data, and computed it
DirectlyComputed ==
    /\ lastOp.op = "read" /\ lastOp.ok /\ ~lastOp.hit
    /\ lastOp.attr \in DirectAttrs(ClassOf(lastOp.inst))

\* a cached attribute keeps its value until its instance is reset
CachedValueStays ==
    \A x \in Attrs(ClassOf(made.inst)) :
        an.cache[made.inst][x].obj # 0 /\ lastOp'.op # "reset"
            => an'.cache[made.inst][x] = an.cache[made.inst][x]

C14_SeesCurrentData ==
    DirectlyComputed =>
        ComputedFrom(an.cache[lastOp.inst][lastOp.attr].val, lastOp.inst,
                     time_series)

\* C14, as stated: for every analyzer class, an attribute computed after the
\* series' data array was written to is computed from the data as written,
\* and a cached attribute is not changed by later writes until reset.
C14_MutationSeenByAll == [](C14_SeesCurrentData) /\ [][CachedValueStays]_vars

C14_SeesItsData ==
    DirectlyComputed =>
        ComputedFrom(an.cache[lastOp.inst][lastOp.attr].val, lastOp.inst,
                     IF ClassOf(lastOp.inst) \in {"HilbertAnalyzer", "EventRelatedAnalyzer"}
                     THEN made.args.data ELSE time_series)

\* C14, amended: an attribute that its getter computes from self.data is
\* computed from the data array as it is at the time of the read for the five
\* classes that keep a reference to the array, and from the array as it was at
\* construction for HilbertAnalyzer and EventRelatedAnalyzer; a cached
\* attribute is not changed by later writes until reset.
C14_MutationSeenByReference == [](C14_SeesItsData) /\ [][CachedValueStays]_vars

\* a HilbertAnalyzer computed _analytic after a write, and later writes left
\* the cached value alone
C14_Witness ==
    /\ made.inst = "hil" /\ an.cache["hil"]["_analytic"].obj # 0
    /\ an.cache["hil"]["_analytic"].val.data.data.ver = 0
    /\ time_series.ver = MaxVer /\ lastOp.op = "mutate"
    /\ an.calls["hil"]["_analytic"] = 1

\* C15: on a SpectralAnalyzer the first read of each of spectrum_fourier,
\* spectrum_mlab and spectrum_multi_taper completes, and the estimator of the
\* last two receives the method's own name and the sampling rate.
C15_EachSpectrumCompletes ==
    \A x \in Attrs("SpectralAnalyzer") :
        IsRead(lastOp, "spa", x) /\ ~lastOp.hit =>
            /\ lastOp.ok
            /\ x # "spectrum_fourier" =>
                  LET m == an.cache["spa"][x].val.method
                  IN /\ m["this_method"]
                          = (IF x = "spectrum_mlab" THEN "mlab" ELSE "multi_taper_csd")
                     /\ m["Fs"] = SamplingRate

\* C17: constructing an analyzer with a descriptor of the caller's and reading
\* its attributes leaves the descriptor as the caller made it, and leaves the
\* inputs the analyzer captured unchanged.
C17_InputsUntouched ==
    /\ made.args.method.given => an.method[made.inst] = made.args.method.d
    /\ an.ub[made.inst] = made.args.ub

---------------------------------------------------------------------------
(* Properties of indexing the time axes                                    *)

\* |ticks[k] - t| for the 0-based position k, t converted to ticks
TickDistance(self, t, k) ==
    Signed(FALSE, IntSub(self.ticks[k + 1],
                         TimeArray_new(t, self.time_unit, FALSE).v).mag)

PositionsOf(self) == 0 .. (Len(self.ticks) - 1)

\* every position whose tick is nearest to t
NearestTo(self, t) ==
    {k \in PositionsOf(self) :
        \A j \in PositionsOf(self) :
            IntLe(TickDistance(self, t, k), TickDistance(self, t, j))}

\* every position whose tick is within tol of t
WithinOf(self, t, tol) ==
    {k \in PositionsOf(self) :
        IntLe(TickDistance(self, t, k), TimeArray_new(tol, self.time_unit, FALSE).v)}

\* the call returned exactly the positions of S, each once
ReturnsPositions(S) ==
    /\ ~IsErr(made.out)
    /\ SeqToSet(made.out.idx) = S
    /\ Len(made.out.idx) = Cardinality(S)

IndexAtExact ==
    IF IsNone(made.args.tol)
    THEN ReturnsPositions(NearestTo(made.args.self, made.args.t))
    ELSE ReturnsPositions(WithinOf(made.args.self, made.args.t, made.args.tol))

\* C18, as stated: on a TimeArray, index_at(t) returns exactly the positions
\* that minimise |ticks[k] - t|, every tied one, and index_at(t, tol) exactly
\* the positions with |ticks[k] - t| <= tol, t and tol being converted from
\* the array's unit to ticks.
C18_IndexAtExact == Called("index_at") => IndexAtExact

\* C18, amended: index_at(t, tol) returns exactly the positions within tol on
\* every TimeArray, and index_at(t) exactly the positions nearest to t on a
\* TimeArray that is not empty (on an empty one it raises ValueError).
C18_IndexAtExactNonEmpty ==
    Called("index_at") =>
        IF IsNone(made.args.tol) /\ Len(made.args.self.ticks) = 0
        THEN IsErr(made.out) /\ made.out.exc = "ValueError"
        ELSE IndexAtExact

\* t = 1 s lies midway between the ticks of 0 s and 2 s: both are returned
C18_Witness ==
    /\ Called("index_at") /\ IsNone(made.args.tol)
    /\ made.args.self.time_unit = "s"
    /\ Len(made.args.self.ticks) = 3
    /\ made.args.self.ticks[1] = ToInt(0)
    /\ made.args.self.ticks[2] = made.args.self.ticks[3]
    /\ made.args.t = PyInt(1)
    /\ made.out.idx = <<0, 1, 2>>

\* C19: on a TimeArray and on a UniformTime that is not empty, an integer
\* index k within the axis yields a zero-dimensional scalar holding the tick
\* at position k, and a float index the entries at the nearest tick; neither
\* fails.
C19_ItemAccessWorks ==
    /\ Called("TimeArray.__getitem__") /\ Len(made.args.self.ticks) > 0 =>
          /\ ~IsErr(made.out)
          /\ made.args.key.kind = "key" =>
                /\ made.out.shape = <<>>
                /\ \E k \in PositionsOf(made.args.self) :
                      /\ made.args.key.k \in {k, k - Len(made.args.self.ticks)}
                      /\ made.out.ticks = <<made.args.self.ticks[k + 1]>>
          /\ made.args.key.kind = "float" =>
                /\ Len(made.out.ticks) = Cardinality(NearestTo(made.args.self, made.args.key))
                /\ \A i \in DOMAIN made.out.ticks :
                      \E k \in NearestTo(made.args.self, made.args.key) :
                          made.out.ticks[i] = made.args.self.ticks[k + 1]
    /\ Called("UniformTime.__getitem__") =>
          /\ ~IsErr(made.out)
          /\ made.args.key.kind = "key" =>
                /\ made.out.shape = <<>>
                /\ \E k \in 0 .. (MaxLen - 1) :
                      /\ made.args.key.k \in {k, k - MaxLen}
                      /\ made.out.ticks = <<ElementAt(made.args.self, k)>>

---------------------------------------------------------------------------
(* Properties of the sampling rate and interval of a UniformTime           *)

\* |x * y - z|, exactly
OffProduct(x, y, z) == Signed(FALSE, IntSub(IntMul(x, y), z).mag)

\* the rate in Hz times the interval in seconds is 1 to within one tick of
\* the interval: |n * ticks - 10^12 * d| <= |n| for the rate n / d
InversePair(A) ==
    IntLe(OffProduct(A.sampling_rate.n, A.sampling_interval.v,
                     Signed(FALSE, NatMul(Ten12, A.sampling_rate.d))),
          Signed(FALSE, A.sampling_rate.n.mag))

\* the rate n / d in Hz is the number r per unit of time: n / d = r * 10^12 / conv
RateInUnit(rate, r, time_unit) ==
    IntMul(rate.n, Signed(FALSE, NatMul(Rat(r).d, time_unit_conversion[time_unit])))
        = IntMul(Rat(r).n, Signed(FALSE, NatMul(Ten12, rate.d)))

\* C20: every successfully constructed UniformTime carries a sampling_rate
\* and a sampling_interval that are an inverse pair (Hz times seconds is 1
\* within rounding), and a sampling_rate argument is taken in 1/time-unit.
C20_RateAndIntervalInverse ==
    Constructed("UniformTime") =>
        /\ InversePair(made.out)
        /\ made.args.sampling_rate.kind \in {"int", "float"}
              /\ IsNone(made.args.sampling_interval)
              => RateInUnit(made.out.sampling_rate, made.args.sampling_rate,
                            made.out.time_unit)

---------------------------------------------------------------------------
(* Further properties of the time axes                                     *)

TooShort ==
    "length/duration too short for the sampling_interval/sampling_rate"

\* C21: no UniformTime is made whose duration, in ticks, is smaller than its
\* sampling interval, in ticks: the construction fails instead.
C21_NoAxisShorterThanInterval ==
    Constructed("UniformTime") =>
        ~IntLt(made.out.duration.v, made.out.sampling_interval.v)

\* UniformTime(duration=1, sampling_interval=2) was refused for that reason
C21_Witness ==
    /\ Called("UniformTime") /\ IsErr(made.out)
    /\ made.out.exc = "ValueError" /\ made.out.what = TooShort
    /\ made.args.duration = PyInt(1) /\ made.args.sampling_interval = PyInt(2)
    /\ IsNone(made.args.data)

IsNotImplemented(out) == IsErr(out) /\ out.exc = "NotImplementedError"

\* C22: nifti_from_time_series, concatenate_time_series and the attribute
\* FIR_estimate raise NotImplementedError on every call or read, whatever the
\* arguments; none returns a value or does nothing.
C22_StubsRaise ==
    \A c \in {"nifti_from_time_series", "concatenate_time_series", "FIR_estimate"} :
        Called(c) => IsNotImplemented(made.out)

\* two series of different sampling rates were given to concatenate_time_series
C22_Witness ==
    /\ Called("concatenate_time_series")
    /\ Len(made.args.time_series_list) = 2
    /\ made.args.time_series_list[1].rate # made.args.time_series_list[2].rate
    /\ IsNotImplemented(made.out)

\* C23: for every positive Frequency f, to_period() in the base unit is
\* 1/f * ticks_per_second rounded to the nearest tick.
C23_PeriodRounded ==
    Called("to_period") =>
        made.out.v = IntRound(Signed(FALSE, NatMul(made.args.self.d, Ten12)),
                              made.args.self.n)

\* C24: the ticks of a UniformTime are t0, t0 + sampling_interval, ..., and
\* when length was given (with the interval, the rate or the duration) the
\* axis has exactly length entries.
C24_ExactlyLengthEntries ==
    (Constructed("UniformTime") /\ IsNone(made.args.data) /\ Given("length")) =>
        /\ made.out.len = made.args.length.v
        /\ \A k \in 0 .. (MaxLen - 1) :
              ElementAt(made.out, k)
                  = Wrap64(IntAdd(made.out.t0.v,
                                  IntMul(ToInt(k), made.out.sampling_interval.v)))

---------------------------------------------------------------------------
(* Further properties of the analyzers                                     *)

\* C25: in the phase of a CoherenceAnalyzer, phase[i,j] for i <= j, the
\* diagonal included, is the phase-angle primitive of spectrum[i,j], and
\* phase[j,i] for i < j is the primitive of the conjugate of spectrum[i,j].
C25_PhaseFromConjugate ==
    an.cache["coh"]["phase"].obj # 0 =>
        LET S == an.cache["coh"]["spectrum"].val
            phase == an.cache["coh"]["phase"].val
        IN \A p \in Pairs(time_series.nchan) :
              p[1] <= p[2] =>
                 /\ phase[p] = PhaseCalculate(S[p])
                 /\ p[1] < p[2] =>
                       phase[<<p[2], p[1]>>] = PhaseCalculate(Conj(S[p]))

\* the phase of two channels was read: phase[1,0] is the angle of the
\* conjugate of a cross-spectrum that is not real
C25_Witness ==
    /\ IsRead(lastOp, "coh", "phase") /\ lastOp.ok /\ ~lastOp.hit
    /\ time_series.nchan >= 2
    /\ an.cache["coh"]["spectrum"].val[<<0, 1>>][2] # 0
    /\ an.cache["coh"]["phase"].val[<<1, 0>>]
          = PhaseCalculate(Conj(an.cache["coh"]["spectrum"].val[<<0, 1>>]))

SparseReaders == {"coherency", "spectrum", "phases"}

OutOfBand ==
    {k \in 0 .. (made.args.n \div 2) :
        \/ k < made.args.lb.k
        \/ ~IsNone(made.args.ub) /\ k > made.args.ub.k}

BothZeroed ==
    \A k \in OutOfBand :
        /\ k \in made.out.bins
        /\ k > 0 => (made.args.n - k) \in made.out.bins

\* C27: in both HilbertAnalyzer and FilterAnalyzer, every Fourier coefficient
\* k of a non-negative frequency outside [lb, ub] and its mirror, coefficient
\* N - k, are set to zero before the inverse transform.
C27_BandAndMirrorZeroed ==
    Called("HilbertAnalyzer") \/ Called("filtered_fourier") => BothZeroed

---------------------------------------------------------------------------
(* Further properties of construction                                       *)

\* which of interval, rate, length, duration the call gave
GivenTiming ==
    <<~IsNone(made.args.sampling_interval), ~IsNone(made.args.sampling_rate),
      ~IsNone(made.args.length), ~IsNone(made.args.duration)>>

\* UniformTime(axis, ...) with at most one timing argument, t0 and the unit
\* left at their defaults
FromAxis ==
    /\ Called("UniformTime")
    /\ ~IsNone(made.args.data)
    /\ Cardinality({k \in 1 .. 4 : GivenTiming[k]}) <= 1
    /\ made.args.t0 = PyInt(0)
    /\ made.args.time_unit = "None"

SameTicks(a, b) == a.start = b.start /\ a.step = b.step /\ a.len = b.len

\* the one refusal that is about the values and not about the combination
RefusedAsTooShort ==
    /\ IsErr(made.out)
    /\ made.out.exc = "ValueError"
    /\ made.out.what =
          "length/duration too short for the sampling_interval/sampling_rate"

TakenOver ==
    LET old == made.args.data
        new == made.out
    IN /\ ~IsErr(new)
       /\ new.t0.v = old.t0.v
       /\ new.time_unit = old.time_unit
       /\ ~GivenTiming[3] /\ ~GivenTiming[4] => new.duration.v = old.duration.v
       /\ ~GivenTiming[1] /\ ~GivenTiming[2] =>
             new.sampling_interval.v = old.sampling_interval.v
       /\ GivenTiming = <<FALSE, FALSE, FALSE, FALSE>> => SameTicks(new, old)

\* C28: UniformTime built from an existing UniformTime axis with no timing
\* argument, or with the interval, the rate, the length or the duration
\* only, is accepted, and t0, the duration or the sampling rate and the time
\* unit that the call leaves out are those of the existing axis; with no
\* timing argument the ticks are the same.
C28_AttributesTakenOver == FromAxis /\ ~RefusedAsTooShort => TakenOver

---------------------------------------------------------------------------
(* Further properties of the event-related analyzer                         *)

\* the analyzer as __init__ leaves it for the arguments of the call
PaddedAnalyzer ==
    EraInit(made.args.data, made.args.events, made.args.len_hrf,
            made.args.correct_baseline, made.args.offset)

\* every index event + count + offset lies in the padded data of its channel
WindowsInside ==
    \A i \in DOMAIN PaddedAnalyzer.events :
       \A k \in DOMAIN PaddedAnalyzer.events[i] :
          PaddedAnalyzer.events[i][k] # 0 =>
             \A count \in 0 .. (made.args.len_hrf - 1) :
                (k - 1) + count + made.args.offset
                    \in 0 .. (Len(PaddedAnalyzer.data[i]) - 1)

\* C29: for every offset, every len_hrf >= 1 and every event of the original
\* series, each index event + count + offset (0 <= count < len_hrf) that eta
\* uses lies within the zero-padded data, so no window falls outside the
\* padded data or wraps around.
C29_WindowsInsidePadding ==
    Called("eta") =>
        /\ WindowsInside
        /\ ~(IsErr(made.out) /\ made.out.what = "index out of bounds")

---------------------------------------------------------------------------
(* The unit of a time array and its conversion factor                       *)

FactorAgrees(t) == t.conversion_factor = time_unit_conversion[t.time_unit]

\* C30: every TimeArray and UniformTime that a constructor returns, from raw
\* values or from another time array, with or without a unit, has
\* _conversion_factor = time_unit_conversion[time_unit]; so have the duration,
\* t0 and sampling interval that a UniformTime carries.
C30_FactorMatchesUnit ==
    /\ Constructed("TimeArray") => FactorAgrees(made.out)
    /\ Constructed("UniformTime") =>
          /\ FactorAgrees(made.out)
          /\ FactorAgrees(made.out.duration)
          /\ FactorAgrees(made.out.t0)
          /\ FactorAgrees(made.out.sampling_interval)

============================================================================
